---- MODULE Spec2Model ----
(***************************************************************************)
(* A model of pybackpack.commands: the Command contract (run / async_run   *)
(* with its failure boundary), the CommandResult record, and the composite *)
(* commands PipeCommand, SequentialCommand and ParallelCommand, driven by  *)
(* a caller that constructs one command tree and, when the construction    *)
(* succeeds, runs its root a bounded number of times.                      *)
(*                                                                         *)
(* Command objects are numbered; object 1 is the root the caller runs.     *)
(* Python values are tagged records, lists live in a heap (so that two     *)
(* references to one list see each other's appends), and an optional       *)
(* object reference is a sequence of length 0 (None) or 1.                 *)
(***************************************************************************)
EXTENDS Integers, Sequences, FiniteSets, TLC

\* Bounds of the model.
MaxRuns == 2
MaxChildren == 4
\* The longest child list of a ParallelCommand.
MaxTasks == 3
\* multiprocessing.cpu_count() of the machine.
CpuCount == 2

----------------------------------------------------------------------------
(* Python values *)

None == [t |-> "none", s |-> "", ref |-> 0]
Str(x) == [t |-> "str", s |-> x, ref |-> 0]
ListRef(n) == [t |-> "list", s |-> "", ref |-> n]

\* An exception object: its class and the message it was built with.
NoError == [cls |-> "NoneType", msg |-> ""]
SystemError(m) == [cls |-> "SystemError", msg |-> m]
ValueError(m) == [cls |-> "ValueError", msg |-> m]
TypeError(m) == [cls |-> "TypeError", msg |-> m]

\* str(error) of an exception built with one message argument.
PyStr(error) == Str(error.msg)

\* An optional reference: None, or the object.
Null == <<>>
Some(x) == <<x>>

\* dataclass CommandResult(output, succeeded=True, error=None,
\*                         error_message=None, metadata=None)
CommandResult(output, succeeded, error, error_message, metadata) ==
    [output |-> output, succeeded |-> succeeded, error |-> error,
     error_message |-> error_message, metadata |-> metadata]

VARIABLES
    attempt,          \* the constructor call the caller made for the root
    ctor_error,       \* the exception that constructor call raised, if any
    cls,              \* class of each command object
    commands,         \* composite: the list of child objects
    operator,         \* SequentialCommand.operator
    collect_outputs,  \* SequentialCommand / ParallelCommand .collect_outputs
    pool_size,        \* ParallelCommand.pool_size
    char,             \* AddCharCommand.char
    raise_error,      \* ErrorCommand.raise_error
    collect_results,  \* the collection flag of the results accumulator
    input_data,       \* Command.input_data
    result,           \* Command.result
    pipeline_failed,  \* PipeCommand._pipeline_failed
    last_result,      \* PipeCommand._last_result
    outputs,          \* SequentialCommand._outputs (a list reference)
    heap,             \* the list objects
    results,          \* the results sequence of a composite's returned result
    pool,             \* the tasks of the multiprocessing.Pool in use
    stack,            \* the call stack: one frame per run()/async_run() in progress
    returned,         \* what the root's last finished call returned to the caller
    escaped,          \* the exception the root's last call raised to the caller
    runs,             \* how many times the caller has called the root
    log,              \* the child invocations that returned, in this call of the root
    directory,        \* get_files: what the disk holds at the directory argument
    names,            \* get_files: the names argument
    exclude_names,    \* get_files: the exclude_names argument
    recursive,        \* get_files: the recursive argument
    files,            \* get_files: the list the call returned
    twin              \* the synchronous runs an awaited twin is compared with

config == <<attempt, ctor_error, cls, commands, operator, collect_outputs,
            pool_size, char, raise_error, collect_results>>
fields == <<input_data, result, pipeline_failed, last_result, outputs, heap,
            results>>
listing == <<directory, names, exclude_names, recursive, files>>
vars == <<config, fields, pool, stack, returned, escaped, runs, log, listing, twin>>

----------------------------------------------------------------------------
(* Values as Python prints them: the form in which outputs are compared *)

RECURSIVE Repr(_), ReprItems(_)
\* repr(v): None, 'text', or [item, item, ...] read through the heap.
Repr(v) ==
    CASE v.t = "none" -> "None"
      [] v.t = "str" -> "'" \o v.s \o "'"
      [] v.t = "list" -> "[" \o ReprItems(heap[v.ref]) \o "]"
ReprItems(items) ==
    IF items = <<>> THEN ""
    ELSE IF Len(items) = 1 THEN Repr(items[1])
    ELSE Repr(items[1]) \o ", " \o ReprItems(Tail(items))

\* bool(v): None, "" and [] are falsy.
Truthy(v) ==
    CASE v.t = "none" -> FALSE
      [] v.t = "str" -> v.s # ""
      [] v.t = "list" -> heap[v.ref] # <<>>

\* f"{v}": a string as it is, anything else as it prints.
Format(v) == IF v.t = "str" THEN v.s ELSE Repr(v)

----------------------------------------------------------------------------
(* Command: the failure boundary and the stored input *)

\* Command._handle_error
Command_handle_error(error) ==
    CommandResult(None, FALSE, error, PyStr(error), None)

\* Mutant of Command_set_input: the argument replaces the stored input even
\* when it is None.
Command_set_input_always(self, arg) == [input_data EXCEPT ![self] = arg]

\* Command._set_input: the stored input after a call with argument arg.
Command_set_input(self, arg) ==
    IF arg # None THEN [input_data EXCEPT ![self] = arg] ELSE input_data

\* What an execution of _run / _async_run ends in: a returned CommandResult
\* or a raised exception.
Returns(r) == [raised |-> FALSE, error |-> NoError, value |-> r]
Raises(e) == [raised |-> TRUE, error |-> e, value |-> Command_handle_error(e)]

\* Mutant of Command_run: no except clause, the exception leaves run().
Command_run_uncaught(outcome) == outcome

\* Command.run, lines 88-93: what run() ends in when self._run() ended in
\* outcome (try: self._run(); except Exception as ex: self._handle_error(ex)).
Command_run(outcome) ==
    IF outcome.raised THEN Returns(Command_handle_error(outcome.error)) ELSE outcome

\* Command.async_run, lines 116-121: the same boundary around
\* await self._async_run().
Command_async_run(outcome) ==
    IF outcome.raised THEN Returns(Command_handle_error(outcome.error)) ELSE outcome

----------------------------------------------------------------------------
(* The leaf commands of the test suite, on the stored input *)

ErrorMessage == "Error from ErrorCommand"

\* AddCharCommand: appends its char to the input, a falsy input being "".
AddCharCommand_run(self) ==
    LET text == IF Truthy(input_data[self]) THEN Format(input_data[self]) ELSE ""
    IN Returns(CommandResult(Str(text \o char[self]), TRUE, NoError, None, None))

\* ErrorCommand: raises SystemError, or returns a failed result without raising.
ErrorCommand_run(self) ==
    IF raise_error[self]
    THEN Raises(SystemError(ErrorMessage))
    ELSE Returns(CommandResult(None, FALSE, NoError, Str(ErrorMessage), None))

LeafClasses == {"AddCharCommand", "ErrorCommand"}

Leaf_run(self) ==
    IF cls[self] = "AddCharCommand" THEN AddCharCommand_run(self)
    ELSE ErrorCommand_run(self)

----------------------------------------------------------------------------
(* PipeCommand *)

\* Mutant of PipeCommand_evaluate_result: a failed result does not stop the pipe.
PipeCommand_evaluate_result_no_break(self, r) ==
    [last_result |-> Some(r),
     pipeline_failed |-> IF ~r.succeeded THEN TRUE ELSE pipeline_failed[self],
     ret |-> TRUE]

\* PipeCommand._evaluate_result: the new _last_result and _pipeline_failed,
\* and the returned flag (continue or not).
PipeCommand_evaluate_result(self, r) ==
    [last_result |-> Some(r),
     pipeline_failed |-> IF ~r.succeeded THEN TRUE ELSE pipeline_failed[self],
     ret |-> r.succeeded]

\* Mutant of PipeCommand_final_result: the failed result is not passed on.
PipeCommand_final_result_fresh(self) ==
    CommandResult(last_result[self][1].output, TRUE, NoError, None, None)

\* PipeCommand._final_result
PipeCommand_final_result(self) ==
    IF pipeline_failed[self]
    THEN last_result[self][1]
    ELSE CommandResult(last_result[self][1].output, TRUE, NoError, None, None)

\* PipeCommand._last_output
PipeCommand_last_output(self) ==
    IF last_result[self] # Null
    THEN last_result[self][1].output
    ELSE input_data[self]

----------------------------------------------------------------------------
(* SequentialCommand *)

AND == Str("&&")
OR == Str("||")
ALWAYS == None

\* Mutant of SequentialCommand_evaluate_result: the test of the || operator
\* is missing, a success does not stop the sequence.
SequentialCommand_evaluate_result_no_or(self, r) ==
    [heap |-> IF collect_outputs[self]
              THEN [heap EXCEPT ![outputs[self]] = Append(@, r.output)]
              ELSE heap,
     ret |-> IF ~r.succeeded /\ operator[self] = Str("&&") THEN FALSE ELSE TRUE]

\* SequentialCommand._evaluate_result: the heap after the append to _outputs,
\* and the returned flag (continue or not).
SequentialCommand_evaluate_result(self, r) ==
    [heap |-> IF collect_outputs[self]
              THEN [heap EXCEPT ![outputs[self]] = Append(@, r.output)]
              ELSE heap,
     ret |-> IF ~r.succeeded /\ operator[self] = AND THEN FALSE
             ELSE IF r.succeeded /\ operator[self] = OR THEN FALSE
             ELSE TRUE]

\* Mutant of SequentialCommand_final_result: the last result's succeeded flag
\* is returned under every operator.
SequentialCommand_final_result_last(self, r) ==
    LET fresh == ~collect_outputs[self]
        ref == IF fresh THEN Len(heap) + 1 ELSE outputs[self]
    IN [heap |-> IF fresh THEN Append(heap, <<r.output>>) ELSE heap,
        outputs |-> ref,
        value |-> CommandResult(ListRef(ref), r.succeeded, NoError, None, None)]

\* SequentialCommand._final_result: without collection _outputs becomes a new
\* one-element list; the returned result's output is the _outputs list itself.
SequentialCommand_final_result(self, r) ==
    LET fresh == ~collect_outputs[self]
        ref == IF fresh THEN Len(heap) + 1 ELSE outputs[self]
        succeeded == IF Truthy(operator[self]) THEN r.succeeded ELSE TRUE
    IN [heap |-> IF fresh THEN Append(heap, <<r.output>>) ELSE heap,
        outputs |-> ref,
        value |-> CommandResult(ListRef(ref), succeeded, NoError, None, None)]

----------------------------------------------------------------------------
(* The results accumulator of a composite's result *)

\* The accumulator after a child returned r.
Results_collect(self, acc, r) ==
    IF collect_results[self] THEN Append(acc, r) ELSE acc

\* The results of the final result.
Results_final(self, acc) ==
    IF collect_results[self] THEN acc ELSE <<>>

----------------------------------------------------------------------------
(* Construction: the command trees the caller builds *)

Root == 1
Chars == <<"A", "B", "C", "D", "E", "F">>
Modes == {"sync", "async"}
CtorInputs == {None, Str("X")}
RunInputs == {None, Str(""), Str("D")}
Operators == {AND, OR, ALWAYS}

\* A leaf as constructed: AddCharCommand(char), ErrorCommand(raise_error).
LeafKinds ==
    {[cls |-> "AddCharCommand", raise_error |-> FALSE],
     [cls |-> "ErrorCommand", raise_error |-> FALSE],
     [cls |-> "ErrorCommand", raise_error |-> TRUE]}

\* The fields every Command starts with (Command.__init__), and the fields
\* the classes add, for a tree of n objects.
Blank(n) ==
    [cls |-> [c \in 1..n |-> "AddCharCommand"],
     commands |-> [c \in 1..n |-> <<>>],
     operator |-> [c \in 1..n |-> None],
     collect_outputs |-> [c \in 1..n |-> FALSE],
     pool_size |-> [c \in 1..n |-> 0],
     collect_results |-> [c \in 1..n |-> FALSE],
     char |-> [c \in 1..n |-> ""],
     raise_error |-> [c \in 1..n |-> FALSE],
     input_data |-> [c \in 1..n |-> None],
     outputs |-> [c \in 1..n |-> 0],
     heap |-> <<>>]

\* The leaves kinds[1..k] as objects first..first+k-1, with chars A, B, ...
WithLeaves(p, first, kinds) ==
    LET mine(c) == c >= first /\ c < first + Len(kinds)
    IN [p EXCEPT
          !.cls = [c \in DOMAIN @ |-> IF mine(c) THEN kinds[c - first + 1].cls ELSE @[c]],
          !.raise_error = [c \in DOMAIN @ |->
                             IF mine(c) THEN kinds[c - first + 1].raise_error ELSE @[c]],
          !.char = [c \in DOMAIN @ |-> IF mine(c) THEN Chars[c - first + 1] ELSE @[c]]]

\* `not commands` of a constructor's commands argument: None or an empty list.
NotCommands(arg) == arg = Null \/ arg[1] = <<>>

\* Mutant of PipeCommand_init_raises: an empty list is accepted.
PipeCommand_init_raises_none_only(arg) ==
    IF arg = Null
    THEN Some(ValueError("Commands list cannot be None or empty"))
    ELSE Null

\* What PipeCommand.__init__ raises for a commands argument, if anything.
PipeCommand_init_raises(arg) ==
    IF NotCommands(arg)
    THEN Some(ValueError("Commands list cannot be None or empty"))
    ELSE Null

\* PipeCommand(commands, input_data)
PipeCommand_init(p, self, children, inp, cr) ==
    [p EXCEPT !.cls[self] = "PipeCommand",
              !.commands[self] = children,
              !.input_data[self] = inp,
              !.collect_results[self] = cr]

\* Mutant of SequentialCommand_init_raises: the operator is not checked.
SequentialCommand_init_raises_any_operator(arg, op) ==
    IF NotCommands(arg)
    THEN Some(ValueError("Commands list cannot be None or empty"))
    ELSE Null

\* What SequentialCommand.__init__ raises for its arguments, if anything.
SequentialCommand_init_raises(arg, op) ==
    IF NotCommands(arg)
    THEN Some(ValueError("Commands list cannot be None or empty"))
    ELSE IF op \notin {AND, OR, ALWAYS}
    THEN Some(ValueError("Invalid operator"))
    ELSE Null

\* SequentialCommand(commands, operator, collect_outputs); _outputs = []
SequentialCommand_init(p, self, children, op, co) ==
    [p EXCEPT !.cls[self] = "SequentialCommand",
              !.commands[self] = children,
              !.operator[self] = op,
              !.collect_outputs[self] = co,
              !.collect_results[self] = co,
              !.outputs[self] = Len(p.heap) + 1,
              !.heap = Append(@, <<>>)]

\* What ParallelCommand.__init__ raises for a commands argument, if anything.
ParallelCommand_init_raises(arg) ==
    IF arg = Null THEN Some(ValueError("Commands list cannot be None")) ELSE Null

\* The collect_outputs a ParallelCommand gets when the caller passes none.
ParallelCommand_collect_outputs_default == FALSE

\* number_of_processes or cpu_count()
ParallelCommand_pool_size(processes) ==
    IF processes = Null \/ processes[1] = 0 THEN CpuCount ELSE processes[1]

\* ParallelCommand(commands, number_of_processes, collect_outputs)
ParallelCommand_init(p, self, children, processes, co) ==
    [p EXCEPT !.cls[self] = "ParallelCommand",
              !.commands[self] = children,
              !.collect_outputs[self] =
                  IF co = Null THEN ParallelCommand_collect_outputs_default ELSE co[1],
              !.pool_size[self] = ParallelCommand_pool_size(processes)]

LeafLists(n) == [1..n -> LeafKinds]

\* A single leaf, run by the caller itself.
LeafPrograms == {WithLeaves(Blank(1), 1, <<k>>) : k \in LeafKinds}

\* PipeCommand([leaf, ...], input_data)
PipePrograms ==
    UNION {{PipeCommand_init(WithLeaves(Blank(n + 1), 2, ks), Root,
                             [i \in 1..n |-> i + 1], inp, cr) :
              ks \in LeafLists(n), inp \in CtorInputs, cr \in BOOLEAN} :
           n \in 1..MaxChildren}

\* SequentialCommand([leaf, ...], operator, collect_outputs)
SequentialPrograms ==
    UNION {{SequentialCommand_init(WithLeaves(Blank(n + 1), 2, ks), Root,
                                   [i \in 1..n |-> i + 1], op, co) :
              ks \in LeafLists(n), op \in Operators, co \in BOOLEAN} :
           n \in 1..MaxChildren}

\* SequentialCommand([SequentialCommand([l1, l2], inner), SequentialCommand([l3, l4], inner)], outer)
NestedPrograms ==
    {SequentialCommand_init(
        SequentialCommand_init(
            SequentialCommand_init(WithLeaves(Blank(7), 4, ks), 2, <<4, 5>>, inner, co),
            3, <<6, 7>>, inner, co),
        Root, <<2, 3>>, outer, co) :
       ks \in LeafLists(4), inner \in {AND, OR}, outer \in {AND, OR}, co \in BOOLEAN}

\* outer([PipeCommand([l1, l2], input_data), ParallelCommand([l3, l4])]) and
\* the same with the two children swapped; outer is a PipeCommand or a
\* SequentialCommand(operator=None, collect_outputs=True).
MixedPrograms ==
    LET inner(ks, co, inp) ==
            ParallelCommand_init(
                PipeCommand_init(WithLeaves(Blank(7), 4, ks), 2, <<4, 5>>, inp, FALSE),
                3, <<6, 7>>, Null, Some(co))
    IN {PipeCommand_init(inner(ks, co, inp), Root, order, None, FALSE) :
          ks \in LeafLists(4), co \in BOOLEAN, inp \in CtorInputs,
          order \in {<<2, 3>>, <<3, 2>>}}
       \cup
       {SequentialCommand_init(inner(ks, co, inp), Root, order, ALWAYS, TRUE) :
          ks \in LeafLists(4), co \in BOOLEAN, inp \in CtorInputs,
          order \in {<<2, 3>>, <<3, 2>>}}

Programs ==
    LeafPrograms \cup PipePrograms \cup SequentialPrograms \cup NestedPrograms
    \cup MixedPrograms

\* A constructor call for the root: the class, and the arguments as passed
\* (an omitted optional argument is Null).
Attempt(c, arg, op, co, processes) ==
    [cls |-> c, commands |-> arg, operator |-> op, collect |-> co,
     processes |-> processes]

\* The constructor call that builds the root of program p.
AttemptOf(p) ==
    Attempt(p.cls[Root],
            IF p.cls[Root] \in {"PipeCommand", "SequentialCommand"}
            THEN Some(p.commands[Root]) ELSE Null,
            p.operator[Root], Some(p.collect_outputs[Root]), Null)

\* An operator the caller may pass that SequentialCommand does not know.
BadOperators == {Str(";")}
ProcessCounts == {Null, Some(1)}

\* ParallelCommand([leaf, ...], number_of_processes, collect_outputs), each
\* optional argument passed or omitted; the list may be empty.
ParallelConstructions ==
    UNION {{[attempt |-> Attempt("ParallelCommand", Some([i \in 1..n |-> i + 1]),
                                 None, co, np),
             program |-> ParallelCommand_init(WithLeaves(Blank(n + 1), 2, ks), Root,
                                              [i \in 1..n |-> i + 1], np, co)] :
              ks \in LeafLists(n), np \in ProcessCounts,
              co \in {Null, Some(TRUE), Some(FALSE)}} :
           n \in 0..MaxTasks}

\* A composite over None or over an empty list.
EmptyConstructions ==
    {[attempt |-> Attempt("PipeCommand", arg, None, Null, Null),
      program |-> PipeCommand_init(Blank(1), Root, <<>>, None, FALSE)] :
       arg \in {Null, Some(<<>>)}}
    \cup
    {[attempt |-> Attempt("SequentialCommand", arg, op, Null, Null),
      program |-> SequentialCommand_init(Blank(1), Root, <<>>, op, FALSE)] :
       arg \in {Null, Some(<<>>)}, op \in Operators \cup BadOperators}
    \cup
    {[attempt |-> Attempt("ParallelCommand", Null, None, Null, Null),
      program |-> ParallelCommand_init(Blank(1), Root, <<>>, Null, Null)]}

\* SequentialCommand([leaf, ...], operator) with an unknown operator.
BadOperatorConstructions ==
    UNION {{[attempt |-> Attempt("SequentialCommand", Some([i \in 1..n |-> i + 1]),
                                 op, Some(co), Null),
             program |-> SequentialCommand_init(WithLeaves(Blank(n + 1), 2, ks), Root,
                                                [i \in 1..n |-> i + 1], op, co)] :
              ks \in LeafLists(n), op \in BadOperators, co \in BOOLEAN} :
           n \in 1..MaxChildren}

\* The methods Command declares abstract.
Command_abstract_methods == {"_run", "_async_run"}

\* The methods the class ProcessCommand(Command) defines.
ProcessCommand_methods == {"__init__", "_run"}

\* What ProcessCommand(cmd, ...) raises, if anything: a class that leaves an
\* abstract method undefined cannot be instantiated, and
\* super().__init__(input_data=..., raise_error=...) passes a keyword that
\* Command.__init__(self, input_data=None) does not take.
ProcessCommand_init_raises ==
    IF Command_abstract_methods \ ProcessCommand_methods # {}
    THEN Some(TypeError("Can't instantiate abstract class ProcessCommand with abstract method _async_run"))
    ELSE Some(TypeError("Command.__init__() got an unexpected keyword argument 'raise_error'"))

\* ProcessCommand(["echo", "Hello"])
ProcessConstructions ==
    {[attempt |-> Attempt("ProcessCommand", Null, None, Null, Null),
      program |-> Blank(0)]}

Constructions ==
    {[attempt |-> AttemptOf(p), program |-> p] : p \in Programs}
    \cup ParallelConstructions \cup EmptyConstructions \cup BadOperatorConstructions
    \cup ProcessConstructions

\* What the root's constructor raises for the call a, if anything.
Init_raises(a) ==
    CASE a.cls = "PipeCommand" -> PipeCommand_init_raises(a.commands)
      [] a.cls = "SequentialCommand" ->
            SequentialCommand_init_raises(a.commands, a.operator)
      [] a.cls = "ParallelCommand" -> ParallelCommand_init_raises(a.commands)
      [] a.cls = "ProcessCommand" -> ProcessCommand_init_raises
      [] OTHER -> Null

\* The program the caller holds after the constructor call k: the tree, or
\* no object at all when the constructor raised.
Constructed(k) == IF Init_raises(k.attempt) = Null THEN k.program ELSE Blank(0)

Objects == DOMAIN cls

\* The state after the constructor call k.
Constructor(k) ==
    LET p == Constructed(k) IN
        /\ attempt = k.attempt
        /\ ctor_error = Init_raises(k.attempt)
        /\ pool_size = p.pool_size
        /\ pool = <<>>
        /\ cls = p.cls
        /\ commands = p.commands
        /\ operator = p.operator
        /\ collect_outputs = p.collect_outputs
        /\ collect_results = p.collect_results
        /\ char = p.char
        /\ raise_error = p.raise_error
        /\ input_data = p.input_data
        /\ outputs = p.outputs
        /\ heap = p.heap
        /\ result = [c \in DOMAIN p.cls |-> Null]
        /\ pipeline_failed = [c \in DOMAIN p.cls |-> FALSE]
        /\ last_result = [c \in DOMAIN p.cls |-> Null]
        /\ results = [c \in DOMAIN p.cls |-> <<>>]
        /\ stack = <<>>
        /\ returned = Null
        /\ escaped = Null
        /\ runs = 0
        /\ log = <<>>

\* No call of get_files is made.
NoListing ==
    /\ directory = [exists |-> FALSE, entries |-> {}]
    /\ names = Null
    /\ exclude_names = Null
    /\ recursive = TRUE
    /\ files = Null

Init ==
    /\ \E k \in Constructions : Constructor(k)
    /\ NoListing
    /\ twin = Null

----------------------------------------------------------------------------
(* Calls and returns *)

Top == stack[Len(stack)]

NewFrame(self, mode) ==
    [self |-> self, mode |-> mode, pc |-> "call", i |-> 1, result |-> Null, acc |-> <<>>]

\* The top frame's command calls child.run(arg) / await child.async_run(arg):
\* _set_input on the child, then the child's body.
Invoke(child, arg) ==
    /\ input_data' = Command_set_input(child, arg)
    /\ stack' = Append(stack, NewFrame(child, Top.mode))

\* The failure boundary of frame k: run() or async_run().
Boundary(k, outcome) ==
    IF stack[k].mode = "sync" THEN Command_run(outcome) ELSE Command_async_run(outcome)

\* Where the outcome of frame k's _run settles: the frame whose run() returns
\* a result (level), or level 0 when the exception passes every boundary
\* (an exception leaving run() is raised inside the calling command's _run,
\* which catches nothing itself).
RECURSIVE Settle(_, _)
Settle(k, outcome) ==
    LET b == Boundary(k, outcome)
    IN IF ~b.raised THEN [level |-> k, outcome |-> b]
       ELSE IF k = 1 THEN [level |-> 0, outcome |-> b]
       ELSE Settle(k - 1, Raises(b.error))

\* A run() that returned r without setting self.result.
Command_result_not_stored(res, self, r) == res

\* self.result = ...; return self.result: the result attributes after the
\* run() or async_run() of self returned r.
Command_result(res, self, r) == [res EXCEPT ![self] = Some(r)]

\* The top frame's _run ended in outcome, the result attributes being res
\* by then: the run() that settles it sets self.result and returns it to its
\* caller.
FinishFrom(res, outcome) ==
    LET s == Settle(Len(stack), outcome)
        k == s.level
        r == s.outcome.value
    IN IF k = 0
       THEN /\ stack' = <<>>
            /\ escaped' = Some(s.outcome.error)
            /\ result' = res
            /\ UNCHANGED <<returned, log>>
       ELSE /\ result' = Command_result(res, stack[k].self, r)
            /\ escaped' = escaped
            /\ IF k = 1
               THEN /\ stack' = <<>>
                    /\ returned' = Some(r)
                    /\ log' = log
               ELSE /\ stack' = [SubSeq(stack, 1, k - 1) EXCEPT
                                   ![k - 1].result = Some(r),
                                   ![k - 1].pc = "evaluate"]
                    /\ returned' = returned
                    /\ log' = Append(log, [parent |-> stack[k - 1].self,
                                           index |-> stack[k - 1].i,
                                           cmd |-> stack[k].self,
                                           input |-> input_data[stack[k].self],
                                           result |-> r])

Finish(outcome) == FinishFrom(result, outcome)

\* root.run(arg) or await root.async_run(arg) is entered.
RootCall(arg, mode) ==
    /\ Root \in DOMAIN cls
    /\ stack = <<>>
    /\ runs < MaxRuns
    /\ runs' = runs + 1
    /\ input_data' = Command_set_input(Root, arg)
    /\ stack' = <<NewFrame(Root, mode)>>
    /\ returned' = Null
    /\ escaped' = Null
    /\ log' = <<>>
    /\ UNCHANGED <<config, listing, pool, result, pipeline_failed, last_result, outputs,
                   heap, results>>

\* The caller runs the root: root.run(arg) or await root.async_run(arg).
CallerRun(arg, mode) == RootCall(arg, mode) /\ twin' = twin

\* A leaf's run(): its _run, settled by the failure boundary.
LeafRun ==
    /\ stack # <<>>
    /\ cls[Top.self] \in LeafClasses
    /\ Top.mode = "sync"
    /\ Finish(Leaf_run(Top.self))
    /\ UNCHANGED <<config, listing, twin,
                   pool, runs, input_data, pipeline_failed, last_result, outputs,
                   heap, results>>

\* A leaf's async_run(): its _async_run, settled by the failure boundary.
LeafAsyncRun ==
    /\ stack # <<>>
    /\ cls[Top.self] \in LeafClasses
    /\ Top.mode = "async"
    /\ Finish(Leaf_run(Top.self))
    /\ UNCHANGED <<config, listing, twin,
                   pool, runs, input_data, pipeline_failed, last_result, outputs,
                   heap, results>>

\* Mutant of Continue: the loop takes every other child.
Continue_skipping(ret, acc) ==
    IF ret /\ Top.i + 1 < Len(commands[Top.self])
    THEN [Top EXCEPT !.pc = "call", !.i = @ + 2, !.acc = acc]
    ELSE [Top EXCEPT !.pc = "return", !.acc = acc]

\* After a child returned: break, take the next child, or leave the loop.
Continue(ret, acc) ==
    IF ret /\ Top.i < Len(commands[Top.self])
    THEN [Top EXCEPT !.pc = "call", !.i = @ + 1, !.acc = acc]
    ELSE [Top EXCEPT !.pc = "return", !.acc = acc]

----------------------------------------------------------------------------
(* PipeCommand._run / _async_run, statement by statement *)

\* for command in self.commands: result = command.run(input_data=self._last_output())
PipeCall ==
    /\ Top.pc = "call"
    /\ Invoke(commands[Top.self][Top.i], PipeCommand_last_output(Top.self))
    /\ UNCHANGED <<config, listing, twin,
                   pool, runs, returned, escaped, log, result, pipeline_failed, last_result,
                   outputs, heap, results>>

\* if not self._evaluate_result(result): break
PipeEvaluate ==
    /\ Top.pc = "evaluate"
    /\ LET ev == PipeCommand_evaluate_result(Top.self, Top.result[1])
       IN /\ last_result' = [last_result EXCEPT ![Top.self] = ev.last_result]
          /\ pipeline_failed' = [pipeline_failed EXCEPT ![Top.self] = ev.pipeline_failed]
          /\ stack' = [stack EXCEPT ![Len(stack)] =
                         Continue(ev.ret, Results_collect(Top.self, Top.acc, Top.result[1]))]
    /\ UNCHANGED <<config, listing, twin,
                   pool, runs, returned, escaped, log, input_data, result, outputs, heap, results>>

\* return self._final_result()
PipeReturn ==
    /\ Top.pc = "return"
    /\ Finish(Returns(PipeCommand_final_result(Top.self)))
    /\ results' = [results EXCEPT ![Top.self] = Results_final(Top.self, Top.acc)]
    /\ UNCHANGED <<config, listing, twin,
                   pool, runs, input_data, pipeline_failed, last_result, outputs, heap>>

PipeCommand_run ==
    /\ stack # <<>>
    /\ cls[Top.self] = "PipeCommand"
    /\ Top.mode = "sync"
    /\ (PipeCall \/ PipeEvaluate \/ PipeReturn)

\* Mutant of PipeCommand_async_run: every child is awaited with the pipe's
\* input.
PipeCommand_async_run_unchained ==
    /\ stack # <<>>
    /\ cls[Top.self] = "PipeCommand"
    /\ Top.mode = "async"
    /\ \/ /\ Top.pc = "call"
          /\ Invoke(commands[Top.self][Top.i], input_data[Top.self])
          /\ UNCHANGED <<config, listing, twin,
                         pool, runs, returned, escaped, log, result,
                         pipeline_failed, last_result, outputs, heap, results>>
       \/ PipeEvaluate
       \/ PipeReturn

PipeCommand_async_run ==
    /\ stack # <<>>
    /\ cls[Top.self] = "PipeCommand"
    /\ Top.mode = "async"
    /\ (PipeCall \/ PipeEvaluate \/ PipeReturn)

----------------------------------------------------------------------------
(* SequentialCommand._run / _async_run, statement by statement *)

\* for command in self.commands: result = command.run()
SequentialCall ==
    /\ Top.pc = "call"
    /\ Invoke(commands[Top.self][Top.i], None)
    /\ UNCHANGED <<config, listing, twin,
                   pool, runs, returned, escaped, log, result, pipeline_failed, last_result,
                   outputs, heap, results>>

\* if not self._evaluate_result(result): break
SequentialEvaluate ==
    /\ Top.pc = "evaluate"
    /\ LET ev == SequentialCommand_evaluate_result(Top.self, Top.result[1])
       IN /\ heap' = ev.heap
          /\ stack' = [stack EXCEPT ![Len(stack)] =
                         Continue(ev.ret, Results_collect(Top.self, Top.acc, Top.result[1]))]
    /\ UNCHANGED <<config, listing, twin,
                   pool, runs, returned, escaped, log, input_data, result, pipeline_failed,
                   last_result, outputs, results>>

\* return self._final_result(result)
SequentialReturn ==
    /\ Top.pc = "return"
    /\ LET fin == SequentialCommand_final_result(Top.self, Top.result[1])
       IN /\ heap' = fin.heap
          /\ outputs' = [outputs EXCEPT ![Top.self] = fin.outputs]
          /\ Finish(Returns(fin.value))
    /\ results' = [results EXCEPT ![Top.self] = Results_final(Top.self, Top.acc)]
    /\ UNCHANGED <<config, listing, twin,
                   pool, runs, input_data, pipeline_failed, last_result>>

SequentialCommand_run ==
    /\ stack # <<>>
    /\ cls[Top.self] = "SequentialCommand"
    /\ Top.mode = "sync"
    /\ (SequentialCall \/ SequentialEvaluate \/ SequentialReturn)

SequentialCommand_async_run ==
    /\ stack # <<>>
    /\ cls[Top.self] = "SequentialCommand"
    /\ Top.mode = "async"
    /\ (SequentialCall \/ SequentialEvaluate \/ SequentialReturn)

----------------------------------------------------------------------------
(* ParallelCommand._run over a multiprocessing.Pool *)

\* Mutant of ExecuteCommand: the worker calls command.run(input_data) with
\* the input of the ParallelCommand.
ExecuteCommand_with_input(command) ==
    LET arg == input_data[Top.self]
        inp == IF arg # None THEN arg ELSE input_data[command]
        text == IF Truthy(inp) THEN Format(inp) ELSE ""
    IN Command_run(
           IF cls[command] = "AddCharCommand"
           THEN Returns(CommandResult(Str(text \o char[command]), TRUE, NoError,
                                      None, None))
           ELSE ErrorCommand_run(command))

\* _execute_command(command) in a worker process: command.run() on the
\* worker's copy of the command.
ExecuteCommand(command) == Command_run(Leaf_run(command))

\* A task of pool.map: queued, taken by a worker, or done with its outcome.
Task(state, outcome) == [state |-> state, outcome |-> outcome]
Running == {i \in DOMAIN pool : pool[i].state = "running"}
AllDone == \A i \in DOMAIN pool : pool[i].state = "done"

\* Mutant of Pool_map: the outcomes in the order the tasks completed.
Pool_map_in_completion_order ==
    [j \in DOMAIN SelectSeq(log, LAMBDA e : e.parent = Top.self) |->
       Returns(SelectSeq(log, LAMBDA e : e.parent = Top.self)[j].result)]

\* What pool.map hands back when every task is done: the outcome of each
\* task, in the order of the list it was given.
Pool_map == [i \in DOMAIN pool |-> pool[i].outcome[1]]

\* Mutant of ParallelCommand_reconcile: the loop is left out.
ParallelCommand_reconcile_none(self, rs) == result

\* for i, command in enumerate(self.commands): command.result = results[i]
ParallelCommand_reconcile(self, rs) ==
    [c \in DOMAIN result |->
       IF \E i \in DOMAIN rs : commands[self][i] = c
       THEN Some(rs[CHOOSE i \in DOMAIN rs : commands[self][i] = c])
       ELSE result[c]]

\* Mutant of ParallelCommand_outputs: the results of failed children are
\* left out.
ParallelCommand_outputs_succeeded_only(self, rs) ==
    SelectSeq(rs, LAMBDA r : r.succeeded)

\* The results whose outputs are gathered: `for result in results if result`.
\* A CommandResult is a dataclass instance without __bool__ or __len__, so
\* every result is true and none is left out.
ParallelCommand_outputs(self, rs) ==
    SelectSeq(rs, LAMBDA r : TRUE)

\* Mutant of ParallelCommand_result: succeeded tells whether every child
\* succeeded.
ParallelCommand_result_of_children(rs, output) ==
    CommandResult(output, \A i \in DOMAIN rs : rs[i].succeeded, NoError, None, None)

\* return CommandResult(output=outputs)
ParallelCommand_result(rs, output) ==
    CommandResult(output, TRUE, NoError, None, None)

\* with Pool(self.pool_size) as pool: results = pool.map(...) is entered:
\* one task per child, in list order.
ParallelMap ==
    /\ Top.pc = "call"
    /\ pool' = [i \in DOMAIN commands[Top.self] |-> Task("queued", Null)]
    /\ stack' = [stack EXCEPT ![Len(stack)].pc = "join"]
    /\ UNCHANGED <<config, listing, twin, fields, runs, returned, escaped, log>>

\* pool.map returned (every task is done); the rest of _run, and the return
\* of run().  An exception a task raised is raised again by pool.map.
ParallelReturn ==
    /\ Top.pc = "join"
    /\ AllDone
    /\ pool' = <<>>
    /\ LET self == Top.self
           failed == {i \in DOMAIN Pool_map : Pool_map[i].raised}
       IN IF failed # {}
          THEN /\ Finish(Raises(Pool_map[CHOOSE i \in failed : \A j \in failed : i <= j]
                                    .error))
               /\ heap' = heap
          ELSE LET rs == [i \in DOMAIN Pool_map |-> Pool_map[i].value]
                   outs == ParallelCommand_outputs(self, rs)
                   out == IF collect_outputs[self]
                          THEN ListRef(Len(heap) + 1) ELSE None
               IN /\ heap' = IF collect_outputs[self]
                             THEN Append(heap, [i \in DOMAIN outs |-> outs[i].output])
                             ELSE heap
                  /\ FinishFrom(ParallelCommand_reconcile(self, rs),
                                Returns(ParallelCommand_result(rs, out)))
    /\ UNCHANGED <<config, listing, twin,
                   runs, input_data, pipeline_failed, last_result, outputs,
                   results>>

ParallelCommand_run ==
    /\ stack # <<>>
    /\ cls[Top.self] = "ParallelCommand"
    /\ Top.mode = "sync"
    /\ (ParallelMap \/ ParallelReturn)

\* Mutant of Pool_free_worker: a process is started for every task.
Pool_free_worker_always(self) == TRUE

\* Mutant of Pool_free_worker: no worker process ever takes a task.
Pool_free_worker_never(self) == FALSE

\* Pool(self.pool_size): the pool has pool_size worker processes, each
\* executing one task at a time.
Pool_free_worker(self) == Cardinality(Running) < pool_size[self]

\* A worker takes the next queued task while the pool has a free worker.
WorkerStart(i) ==
    /\ pool[i].state = "queued"
    /\ \A j \in 1..(i - 1) : pool[j].state # "queued"
    /\ Pool_free_worker(Top.self)
    /\ pool' = [pool EXCEPT ![i].state = "running"]
    /\ UNCHANGED <<config, listing, twin, fields, stack, runs, returned, escaped, log>>

\* Mutant of Pool_worker_result: the workers share the caller's objects, as
\* threads would.
Pool_worker_result_shared(child, outcome) ==
    IF outcome.raised THEN result
    ELSE [result EXCEPT ![child] = Some(outcome.value)]

\* The result attributes of the caller's objects after a worker ran child:
\* pool.map sent the worker a copy of the command, so child.run() set the
\* result of the copy and the caller's objects are as they were.
Pool_worker_result(child, outcome) == result

\* A worker finishes its task: the outcome of _execute_command travels back
\* to the parent process; the command object it ran was the worker's copy.
WorkerFinish(i) ==
    /\ pool[i].state = "running"
    /\ LET child == commands[Top.self][i]
           outcome == ExecuteCommand(child)
       IN /\ pool' = [pool EXCEPT ![i] = Task("done", Some(outcome))]
          /\ log' = IF outcome.raised THEN log
                    ELSE Append(log, [parent |-> Top.self, index |-> i, cmd |-> child,
                                      input |-> input_data[child],
                                      result |-> outcome.value])
          /\ result' = Pool_worker_result(child, outcome)
    /\ UNCHANGED <<config, listing, twin,
                   input_data, pipeline_failed, last_result, outputs, heap,
                   results, stack, runs, returned, escaped>>

PoolWorker ==
    /\ stack # <<>>
    /\ cls[Top.self] = "ParallelCommand"
    /\ Top.pc = "join"
    /\ \E i \in DOMAIN pool : WorkerStart(i) \/ WorkerFinish(i)

\* ParallelCommand._async_run raises; async_run is its failure boundary.
ParallelCommand_async_run ==
    /\ stack # <<>>
    /\ cls[Top.self] = "ParallelCommand"
    /\ Top.mode = "async"
    /\ Finish(Raises(TypeError("ParallelCommand does not support async run")))
    /\ UNCHANGED <<config, listing, twin,
                   pool, runs, input_data, pipeline_failed, last_result, outputs,
                   heap, results>>

----------------------------------------------------------------------------
(* get_files *)

\* A file name is the sequence of its parts between the dots.
Name(parts) == parts

\* What a directory can hold: in the directory itself two yaml files, a
\* text file, a backup of a text file, a subdirectory named like a text
\* file and the subdirectory sub; in sub, a text file and a directory.
Entries ==
    {[dir |-> "", name |-> Name(<<"file1", "yml">>), kind |-> "file"],
     [dir |-> "", name |-> Name(<<"file1", "dev", "yaml">>), kind |-> "file"],
     [dir |-> "", name |-> Name(<<"file3", "txt">>), kind |-> "file"],
     [dir |-> "", name |-> Name(<<"file3", "txt", "bak">>), kind |-> "file"],
     [dir |-> "", name |-> Name(<<"dir", "txt">>), kind |-> "dir"],
     [dir |-> "", name |-> Name(<<"sub">>), kind |-> "dir"],
     [dir |-> "sub", name |-> Name(<<"file1", "txt">>), kind |-> "file"],
     [dir |-> "sub", name |-> Name(<<"dev">>), kind |-> "dir"]}

\* The regular expressions of the tests.
Patterns == {".*", ".*\\.ya?ml$", ".*\\.txt", ".*dev.*"}

\* re.search(pattern, name): the pattern matches somewhere in the name.
re_search(pattern, name) ==
    CASE pattern = ".*" -> TRUE
      [] pattern = ".*\\.ya?ml$" ->
            Len(name) > 1 /\ name[Len(name)] \in {"yml", "yaml"}
      [] pattern = ".*\\.txt" -> \E i \in 2..Len(name) : name[i] = "txt"
      [] pattern = ".*dev.*" -> \E i \in 1..Len(name) : name[i] = "dev"

\* The bound on the length of a list of patterns.
MaxPatterns == 2

\* A names or exclude_names argument: None, or a list of patterns.
PatternLists ==
    {Null} \cup
    {Some(l) : l \in UNION {[1..n -> Patterns] : n \in 0..MaxPatterns}}

\* The directories the disk can hold: a missing one, and the existing ones,
\* where nothing lies in a subdirectory that does not exist.
Directories ==
    {[exists |-> FALSE, entries |-> {}]} \cup
    {[exists |-> TRUE, entries |-> es] :
        es \in {t \in SUBSET Entries :
                   \A e \in t : e.dir # "" =>
                       \E d \in t : /\ d.dir = "" /\ d.kind = "dir"
                                    /\ d.name = Name(<<e.dir>>)}}

\* A set as a list, in some order.
RECURSIVE ListOf(_)
ListOf(set) ==
    IF set = {} THEN <<>>
    ELSE LET e == CHOOSE x \in set : TRUE IN <<e>> \o ListOf(set \ {e})

\* Mutant of Path_glob: the entries at every depth.
Path_glob_all_depths(d) == ListOf(d.entries)

\* list(Path(directory).glob("*")): the direct entries; nothing when the
\* directory does not exist.
Path_glob(d) == ListOf({e \in d.entries : e.dir = ""})

\* list(Path(directory).rglob("*")): the entries at every depth.
Path_rglob(d) == ListOf(d.entries)

\* path.is_file()
Path_is_file(path) == path.kind = "file"

\* Mutant of get_files: directories are not skipped.
get_files_with_directories(d, ns, ex, rec) ==
    LET patterns == IF ns = Null THEN <<".*">> ELSE ns[1]
        paths == IF rec THEN Path_rglob(d) ELSE Path_glob(d)
        should_include(path) ==
            \E i \in DOMAIN patterns : re_search(patterns[i], path.name)
        should_exclude(path) ==
            /\ ex # Null /\ ex[1] # <<>>
            /\ \E i \in DOMAIN ex[1] : re_search(ex[1][i], path.name)
    IN SelectSeq(paths, LAMBDA path : should_include(path) /\ ~should_exclude(path))

\* get_files(directory, names, exclude_names, recursive)
get_files(d, ns, ex, rec) ==
    LET patterns == IF ns = Null THEN <<".*">> ELSE ns[1]
        paths == IF rec THEN Path_rglob(d) ELSE Path_glob(d)
        should_include(path) ==
            \E i \in DOMAIN patterns : re_search(patterns[i], path.name)
        should_exclude(path) ==
            /\ ex # Null /\ ex[1] # <<>>
            /\ \E i \in DOMAIN ex[1] : re_search(ex[1][i], path.name)
    IN SelectSeq(paths, LAMBDA path :
                          /\ Path_is_file(path)
                          /\ should_include(path)
                          /\ ~should_exclude(path))

\* The caller calls get_files once.
GetFiles ==
    /\ files = Null
    /\ files' = Some(get_files(directory, names, exclude_names, recursive))
    /\ UNCHANGED <<config, fields, pool, stack, returned, escaped, runs, log,
                   directory, names, exclude_names, recursive, twin>>

\* A program that lists a directory: no command is built.
ListingInit ==
    /\ Constructor([attempt |-> Attempt("get_files", Null, None, Null, Null),
                    program |-> Blank(0)])
    /\ directory \in Directories
    /\ names \in PatternLists
    /\ exclude_names \in PatternLists
    /\ recursive \in BOOLEAN
    /\ files = Null
    /\ twin = Null

ListingSpec == ListingInit /\ [][GetFiles]_vars

----------------------------------------------------------------------------

Next ==
    \/ \E arg \in RunInputs, mode \in Modes : CallerRun(arg, mode)
    \/ LeafRun
    \/ LeafAsyncRun
    \/ PipeCommand_run
    \/ PipeCommand_async_run
    \/ SequentialCommand_run
    \/ SequentialCommand_async_run
    \/ ParallelCommand_run
    \/ PoolWorker
    \/ ParallelCommand_async_run

Spec == Init /\ [][Next]_vars

\* Two identically built trees of PipeCommand and SequentialCommand over
\* leaves: the caller runs the first with run, then awaits the second with
\* async_run, call by call with the same arguments.
TwinPrograms ==
    {p \in PipePrograms \cup SequentialPrograms :
        Len(p.commands[Root]) <= MaxTasks}
    \cup NestedPrograms

\* What the caller can observe of the root's last call, and the children
\* that were executed in it, with their inputs and results.
Observed ==
    [returned |-> returned, escaped |-> escaped, log |-> log, heap |-> heap,
     result |-> result]

TwinInit ==
    /\ \E p \in TwinPrograms :
          /\ Constructor([attempt |-> AttemptOf(p), program |-> p])
          /\ twin = Some([phase |-> "run",
                          built |-> [input_data |-> p.input_data,
                                     outputs |-> p.outputs, heap |-> p.heap],
                          args |-> <<>>,
                          trace |-> <<>>])
    /\ NoListing

\* The caller runs the first tree: root.run(arg).
TwinRun ==
    /\ twin[1].phase = "run"
    /\ \E arg \in RunInputs :
          /\ RootCall(arg, "sync")
          /\ twin' = Some([twin[1] EXCEPT
                             !.args = Append(@, arg),
                             !.trace = IF runs > 0 THEN Append(@, Observed) ELSE @])

\* The caller turns to the second tree, which is as the first was built.
TwinBuilt ==
    /\ twin[1].phase = "run"
    /\ stack = <<>> /\ runs > 0
    /\ twin' = Some([twin[1] EXCEPT !.phase = "await",
                                    !.trace = Append(@, Observed)])
    /\ input_data' = twin[1].built.input_data
    /\ outputs' = twin[1].built.outputs
    /\ heap' = twin[1].built.heap
    /\ result' = [c \in DOMAIN cls |-> Null]
    /\ pipeline_failed' = [c \in DOMAIN cls |-> FALSE]
    /\ last_result' = [c \in DOMAIN cls |-> Null]
    /\ results' = [c \in DOMAIN cls |-> <<>>]
    /\ returned' = Null
    /\ escaped' = Null
    /\ runs' = 0
    /\ log' = <<>>
    /\ UNCHANGED <<config, listing, pool, stack>>

\* The caller awaits the second tree with the argument of the first tree's
\* call of the same rank: await root.async_run(arg).
TwinAwait ==
    /\ twin[1].phase = "await"
    /\ runs < Len(twin[1].args)
    /\ RootCall(twin[1].args[runs + 1], "async")
    /\ twin' = twin

TwinNext ==
    \/ TwinRun
    \/ TwinBuilt
    \/ TwinAwait
    \/ LeafRun
    \/ LeafAsyncRun
    \/ PipeCommand_run
    \/ PipeCommand_async_run
    \/ SequentialCommand_run
    \/ SequentialCommand_async_run

TwinSpec == TwinInit /\ [][TwinNext]_vars

\* SequentialCommand([SequentialCommand([l1, ..], None, True),
\*                    ParallelCommand([m1, ..], processes, True)],
\*                   operator=None, collect_outputs=True),
\* where m1, .. are built as l1, .. are: one run of the root runs the same
\* children once in sequence and once in parallel.
PairPrograms ==
    UNION {{SequentialCommand_init(
               ParallelCommand_init(
                   SequentialCommand_init(
                       WithLeaves(WithLeaves(Blank(3 + 2 * n), 4, ks), 4 + n, ks),
                       2, [i \in 1..n |-> 3 + i], ALWAYS, TRUE),
                   3, [i \in 1..n |-> 3 + n + i], np, Some(TRUE)),
               Root, <<2, 3>>, ALWAYS, TRUE) :
              ks \in LeafLists(n), np \in ProcessCounts} :
           n \in 1..MaxTasks}

PairInit ==
    /\ \E p \in PairPrograms :
          Constructor([attempt |-> AttemptOf(p), program |-> p])
    /\ NoListing
    /\ twin = Null

PairNext ==
    \/ \E arg \in RunInputs : CallerRun(arg, "sync")
    \/ LeafRun
    \/ SequentialCommand_run
    \/ ParallelCommand_run
    \/ PoolWorker

PairSpec == PairInit /\ [][PairNext]_vars

\* The synchronous runs of a ParallelCommand over leaves, the worker
\* processes of its pool being scheduled by the operating system: a worker
\* that can take or finish a task eventually does.
PoolInit ==
    /\ \E k \in ParallelConstructions : Constructor(k)
    /\ NoListing
    /\ twin = Null

PoolNext ==
    \/ \E arg \in RunInputs : CallerRun(arg, "sync")
    \/ ParallelCommand_run
    \/ PoolWorker

PoolSpec == PoolInit /\ [][PoolNext]_vars /\ WF_vars(PoolWorker)

\* Composites whose every child invocation terminates: a PipeCommand, a
\* collecting SequentialCommand or a collecting ParallelCommand over leaves,
\* and a PipeCommand or SequentialCommand holding a pipe and a collecting
\* ParallelCommand.
FairConstructions ==
    {[attempt |-> AttemptOf(p), program |-> p] :
       p \in {q \in PipePrograms \cup SequentialPrograms :
                 /\ Len(q.commands[Root]) <= MaxTasks
                 /\ q.collect_outputs[Root] = (q.cls[Root] = "SequentialCommand")
                 /\ ~q.collect_results[Root]}
             \cup {q \in MixedPrograms :
                      q.input_data[2] = None /\ q.collect_outputs[3]}}
    \cup {k \in ParallelConstructions : k.attempt.collect = Some(TRUE)}

FairInit ==
    /\ \E k \in FairConstructions : Constructor(k)
    /\ NoListing
    /\ twin = Null

\* A step of a call in progress: the next statement of the running method,
\* the awaited coroutine being resumed, or a worker process of the pool.
Execution ==
    \/ LeafRun
    \/ LeafAsyncRun
    \/ PipeCommand_run
    \/ PipeCommand_async_run
    \/ SequentialCommand_run
    \/ SequentialCommand_async_run
    \/ ParallelCommand_run
    \/ PoolWorker
    \/ ParallelCommand_async_run

\* The calls of the caller with the interpreter, the event loop and the
\* operating system doing their work: a call in progress that can take a
\* step eventually takes one.
FairSpec == FairInit /\ [][Next]_vars /\ WF_vars(Execution)

----------------------------------------------------------------------------
(* What a run did, read from the log of the current call of the root *)

\* The root's call has finished (it returned, or raised to the caller).
Done == stack = <<>> /\ runs > 0

IsLeaf(c) == cls[c] \in LeafClasses
IsPipe(c) == cls[c] = "PipeCommand"
IsSequential(c) == cls[c] = "SequentialCommand"

\* The invocations of p's children that returned, in execution order.
Ran(p) == SelectSeq(log, LAMBDA e : e.parent = p)

\* The results that calls of c returned in the current call of the root.
ReturnedBy(c) ==
    {log[j].result : j \in {k \in DOMAIN log : log[k].cmd = c}}
    \cup (IF c = Root /\ returned # Null THEN {returned[1]} ELSE {})

\* p's children were taken in list order, each once: the j-th invocation
\* that returned is the one of commands[p][j].
InListOrder(p) ==
    \A j \in DOMAIN Ran(p) : Ran(p)[j].index = j /\ Ran(p)[j].cmd = commands[p][j]

\* The outputs of the invocations in es, as Python prints the list of them.
RECURSIVE ReprOutputs(_)
ReprOutputs(es) ==
    IF es = <<>> THEN ""
    ELSE IF Len(es) = 1 THEN Repr(es[1].result.output)
    ELSE Repr(es[1].result.output) \o ", " \o ReprOutputs(Tail(es))

----------------------------------------------------------------------------
(* The claims *)

\* C1: when a command's execution logic (_run, _async_run) raises e, run
\* (async_run) raises nothing to its caller and returns the CommandResult
\* with output None, succeeded False, error e and error_message str(e).
C1_RaisedBecomesResult ==
    /\ escaped = Null
    /\ \A c \in Objects :
          (IsLeaf(c) /\ Leaf_run(c).raised) =>
             \A r \in ReturnedBy(c) :
                /\ r.output = None
                /\ r.succeeded = FALSE
                /\ r.error = Leaf_run(c).error
                /\ r.error_message = Str(Leaf_run(c).error.msg)

\* A raising leaf has been run twice by the caller itself.
C1_Witness ==
    /\ Done
    /\ IsLeaf(Root) /\ Leaf_run(Root).raised
    /\ returned # Null /\ returned[1].error.cls = "SystemError"
    /\ runs = 2

\* C2: in a PipeCommand run, once a child's result has succeeded = False no
\* child after it is executed in that run; after the first run of a freshly
\* built pipe the result attribute of those children is still None.
C2_PipeShortCircuit ==
    \A p \in Objects :
       IsPipe(p) =>
          /\ InListOrder(p)
          /\ \A j \in DOMAIN Ran(p) :
                ~Ran(p)[j].result.succeeded =>
                   /\ Len(Ran(p)) = j
                   /\ \A f \in DOMAIN stack : stack[f].self \notin
                         {commands[p][i] : i \in (j + 1)..Len(commands[p])}
                   /\ runs = 1 =>
                         \A i \in (j + 1)..Len(commands[p]) : result[commands[p][i]] = Null

\* A pipe's run has finished with a failing child that is not the last one.
C2_Witness ==
    /\ Done /\ IsPipe(Root) /\ runs = 1
    /\ Len(Ran(Root)) = 2 /\ Len(commands[Root]) = 4
    /\ ~Ran(Root)[2].result.succeeded

\* C3: the result a PipeCommand run returns has the output, succeeded, error
\* and error_message of the last child executed in that run.
C3_PipeResultIsLastChilds ==
    \A p \in Objects :
       IsPipe(p) =>
          \A r \in ReturnedBy(p) :
             /\ Ran(p) # <<>>
             /\ LET last == Ran(p)[Len(Ran(p))].result
                IN /\ r.output = last.output
                   /\ r.succeeded = last.succeeded
                   /\ r.error = last.error
                   /\ r.error_message = last.error_message

\* A pipe returned after its second child raised.
C3_Witness ==
    /\ Done /\ IsPipe(Root) /\ returned # Null
    /\ Len(Ran(Root)) = 2
    /\ returned[1].error.cls = "SystemError"
    /\ returned[1].error_message = Str(ErrorMessage)

\* The chars of the children of p, concatenated.
RECURSIVE CharsOf(_)
CharsOf(children) ==
    IF children = <<>> THEN "" ELSE char[Head(children)] \o CharsOf(Tail(children))

AllAddChar(p) == \A i \in DOMAIN commands[p] : cls[commands[p][i]] = "AddCharCommand"

\* What the pipe's initial input contributes: nothing when it is None or "".
InitialText(p) == IF Truthy(input_data[p]) THEN Format(input_data[p]) ELSE ""

\* C4: a PipeCommand whose children each append their char returns, for the
\* initial input D, the output D + A + B + C with succeeded = True, and for a
\* None initial input the output A + B + C.
C4_PipeChaining ==
    (Done /\ IsPipe(Root) /\ AllAddChar(Root)) =>
       /\ returned # Null
       /\ returned[1].succeeded
       /\ returned[1].output = Str(InitialText(Root) \o CharsOf(commands[Root]))

\* C4 on the first run of a freshly built pipe.
C4_FirstRun == runs = 1 => C4_PipeChaining

\* The first run of [A, B, C] on the initial input D returned DABC.
C4_FirstRunWitness ==
    /\ Done /\ IsPipe(Root) /\ AllAddChar(Root) /\ runs = 1
    /\ input_data[Root] = Str("D")
    /\ Len(commands[Root]) = 3
    /\ returned[1].output = Str("DABC")

StopsAtFirst(p, stop) ==
    /\ InListOrder(p)
    /\ \A j \in DOMAIN Ran(p) :
          Ran(p)[j].result.succeeded = stop =>
             /\ Len(Ran(p)) = j
             /\ \A f \in DOMAIN stack : stack[f].self \notin
                   {commands[p][i] : i \in (j + 1)..Len(commands[p])}
    /\ \A r \in ReturnedBy(p) :
          /\ Ran(p) # <<>>
          /\ (\A j \in DOMAIN Ran(p) : Ran(p)[j].result.succeeded # stop)
                => Len(Ran(p)) = Len(commands[p])

\* The succeeded flag p returned is the one of its last executed child.
SucceededOfLast(p) ==
    \A r \in ReturnedBy(p) : r.succeeded = Ran(p)[Len(Ran(p))].result.succeeded

\* The output p returned is the list of the outputs of the children executed
\* in this run.
OutputIsRunOutputs(p) ==
    \A r \in ReturnedBy(p) : Repr(r.output) = "[" \o ReprOutputs(Ran(p)) \o "]"

\* The flat sequence [AddChar(A), ErrorCommand(), AddChar(C)] is the root.
IsAFailC ==
    /\ IsSequential(Root) /\ Len(commands[Root]) = 3
    /\ cls[2] = "AddCharCommand" /\ cls[3] = "ErrorCommand" /\ cls[4] = "AddCharCommand"

\* C6: a SequentialCommand with the AND operator executes its children in
\* list order up to and including the first failing one (all if none fails),
\* its succeeded flag is the last executed child's, and with collection its
\* output is the list of the outputs of exactly the executed children:
\* [AddChar(A), ErrorCommand(), AddChar(C)] gives [A, None], succeeded False.
C6_SequentialAnd ==
    \A p \in Objects :
       (IsSequential(p) /\ operator[p] = AND) =>
          /\ StopsAtFirst(p, FALSE)
          /\ SucceededOfLast(p)
          /\ collect_outputs[p] => OutputIsRunOutputs(p)
          /\ (p = Root /\ IsAFailC /\ collect_outputs[p]) =>
                \A r \in ReturnedBy(p) : Repr(r.output) = "['A', None]" /\ ~r.succeeded

\* C6 on the first run of a freshly built sequence.
C6_FirstRun == runs = 1 => C6_SequentialAnd

\* The first run of the collecting [AddChar(A), ErrorCommand(), AddChar(C)].
C6_FirstRunWitness ==
    /\ Done /\ runs = 1 /\ IsAFailC /\ operator[Root] = AND /\ collect_outputs[Root]
    /\ Repr(returned[1].output) = "['A', None]"
    /\ result[4] = Null

\* C7: a SequentialCommand with the OR operator executes its children in list
\* order up to and including the first succeeding one (all if none succeeds),
\* so that [fail, fail, success, X] executes exactly 3 children, and its
\* succeeded flag is the last executed child's.
C7_SequentialOr ==
    \A p \in Objects :
       (IsSequential(p) /\ operator[p] = OR) =>
          /\ StopsAtFirst(p, TRUE)
          /\ SucceededOfLast(p)
          /\ (Len(commands[p]) = 4 /\ IsLeaf(commands[p][1])
              /\ cls[commands[p][1]] = "ErrorCommand" /\ cls[commands[p][2]] = "ErrorCommand"
              /\ cls[commands[p][3]] = "AddCharCommand") =>
                \A r \in ReturnedBy(p) : Len(Ran(p)) = 3

\* [ErrorCommand(), ErrorCommand(raise), AddChar(C), X] under OR has returned.
C7_Witness ==
    /\ Done /\ IsSequential(Root) /\ operator[Root] = OR
    /\ Len(commands[Root]) = 4
    /\ Len(Ran(Root)) = 3
    /\ ~Ran(Root)[1].result.succeeded /\ ~Ran(Root)[2].result.succeeded
    /\ returned[1].succeeded
    /\ result[5] = Null

\* C8: a SequentialCommand with the ALWAYS operator (None) executes every
\* child once, in list order, whatever the children's outcomes, and its
\* succeeded flag is True even if every child failed.
C8_SequentialAlways ==
    \A p \in Objects :
       (IsSequential(p) /\ operator[p] = ALWAYS) =>
          /\ InListOrder(p)
          /\ \A r \in ReturnedBy(p) :
                /\ Len(Ran(p)) = Len(commands[p])
                /\ r.succeeded

\* An ALWAYS sequence of four failing children has returned.
C8_Witness ==
    /\ Done /\ IsSequential(Root) /\ operator[Root] = ALWAYS
    /\ Len(Ran(Root)) = 4
    /\ \A j \in 1..4 : ~Ran(Root)[j].result.succeeded
    /\ returned[1].succeeded

\* C9: the output of a SequentialCommand run is, with collection, the list of
\* the outputs of the children executed in that run in execution order and,
\* without collection, the one-element list of the last executed child's
\* output.
C9_SequentialOutput ==
    \A p \in Objects :
       IsSequential(p) =>
          IF collect_outputs[p]
          THEN OutputIsRunOutputs(p)
          ELSE \A r \in ReturnedBy(p) :
                  Repr(r.output) = "[" \o Repr(Ran(p)[Len(Ran(p))].result.output) \o "]"

\* C9 on the first run of a freshly built sequence.
C9_FirstRun == runs = 1 => C9_SequentialOutput

\* C9 without collection, on every run.
C9_NotCollecting ==
    \A p \in Objects :
       (IsSequential(p) /\ ~collect_outputs[p]) =>
          \A r \in ReturnedBy(p) :
             Repr(r.output) = "[" \o Repr(Ran(p)[Len(Ran(p))].result.output) \o "]"

\* A collecting and a non-collecting first run.
C9_FirstRunWitness ==
    /\ Done /\ runs = 1 /\ IsSequential(Root) /\ operator[Root] = ALWAYS
    /\ Repr(returned[1].output) \in {"['A', None, 'C']", "['C']"}

\* The root is Sequential([Sequential([A, B], AND), Sequential([C, D], AND)], OR),
\* all three collecting.
IsAndOrAnd ==
    /\ IsSequential(Root) /\ commands[Root] = <<2, 3>>
    /\ IsSequential(2) /\ IsSequential(3)
    /\ operator[Root] = OR /\ operator[2] = AND /\ operator[3] = AND
    /\ collect_outputs[Root] /\ collect_outputs[2] /\ collect_outputs[3]

Succeeds(c) == cls[c] = "AddCharCommand"

\* C10: Sequential([Sequential([A, B], AND), Sequential([C, D], AND)], OR)
\* returns succeeded = (A and B) or (C and D) over the children's succeeded
\* flags, runs the right sequence only when the left one's succeeded is
\* False, and has the output [[A.out, B.out]] when the left sequence
\* succeeds and [[A.out, ...], [C.out, ...]] (the outputs of the children
\* each inner sequence executed) when it fails.
C10_NestedAndOrAnd ==
    (Done /\ IsAndOrAnd /\ returned # Null) =>
       LET left == Ran(Root)[1].result
       IN /\ returned[1].succeeded =
                ((Succeeds(4) /\ Succeeds(5)) \/ (Succeeds(6) /\ Succeeds(7)))
          /\ Ran(Root)[1].cmd = 2
          /\ left.succeeded = (Succeeds(4) /\ Succeeds(5))
          /\ (Len(Ran(Root)) = 2) = ~left.succeeded
          /\ Ran(3) # <<>> => ~left.succeeded
          /\ IF left.succeeded
             THEN Repr(returned[1].output) = "[['A', 'B']]"
             ELSE Repr(returned[1].output) =
                     "[[" \o ReprOutputs(Ran(2)) \o "], [" \o ReprOutputs(Ran(3)) \o "]]"

\* C10 on the first run of a freshly built tree.
C10_FirstRun == runs = 1 => C10_NestedAndOrAnd

\* C10 without its statement about the output, on every run.
C10_Succeeded ==
    (Done /\ IsAndOrAnd /\ returned # Null) =>
       LET left == Ran(Root)[1].result
       IN /\ returned[1].succeeded =
                ((Succeeds(4) /\ Succeeds(5)) \/ (Succeeds(6) /\ Succeeds(7)))
          /\ left.succeeded = (Succeeds(4) /\ Succeeds(5))
          /\ (Len(Ran(Root)) = 2) = ~left.succeeded
          /\ Ran(3) # <<>> => ~left.succeeded

\* The first run of (A && Err) || (C && D).
C10_FirstRunWitness ==
    /\ Done /\ runs = 1 /\ IsAndOrAnd
    /\ Repr(returned[1].output) = "[['A', None], ['C', 'D']]"
    /\ returned[1].succeeded

----------------------------------------------------------------------------
(* Claims about what a SequentialCommand passes to its children *)

\* C11: in a run of a SequentialCommand every executed child runs with the
\* same input, the input given to the SequentialCommand, and no child's
\* output is fed to another child.
C11_SequentialSharedInput ==
    \A p \in Objects :
       IsSequential(p) =>
          \A j \in DOMAIN Ran(p) : Ran(p)[j].input = input_data[p]

\* The part of C11 that holds: a leaf child of a sequence runs with the
\* input it was constructed with, which no run and no other child replaces.
C11_NoOutputChaining ==
    \A p \in Objects :
       IsSequential(p) =>
          \A j \in DOMAIN Ran(p) :
             IsLeaf(Ran(p)[j].cmd) => Ran(p)[j].input = None

\* sequence.run("D") over two AddCharCommands has returned ['A', 'B'].
C11_IgnoredInputWitness ==
    /\ Done /\ IsSequential(Root) /\ returned # Null
    /\ input_data[Root] = Str("D")
    /\ Len(Ran(Root)) = 2
    /\ collect_outputs[Root]
    /\ Repr(returned[1].output) = "['A', 'B']"

----------------------------------------------------------------------------
(* Claims about construction *)

IsParallel(c) == cls[c] = "ParallelCommand"
Composites == {"PipeCommand", "SequentialCommand", "ParallelCommand"}

\* The constructor call raised ValueError and left the caller no object.
FailedWithValueError ==
    /\ ctor_error # Null
    /\ ctor_error[1].cls = "ValueError"
    /\ Objects = {}
    /\ runs = 0

\* C12 as stated: constructing a PipeCommand, a SequentialCommand or a
\* ParallelCommand over None or over an empty list fails with ValueError,
\* so that no composite with zero children is ever run.
C12_EmptyNeverConstructs ==
    /\ (attempt.cls \in Composites /\ NotCommands(attempt.commands))
          => FailedWithValueError
    /\ \A c \in Objects : cls[c] \in Composites => commands[c] # <<>>

\* C12, amended: a PipeCommand or SequentialCommand over None or over an
\* empty list, and a ParallelCommand over None, fail at construction with
\* ValueError, so no PipeCommand or SequentialCommand with zero children is
\* ever run; a ParallelCommand over an empty list is constructed, and its
\* synchronous run returns a succeeded result whose output is [] when
\* collecting and None otherwise.
C12_EmptyRejectedExceptParallel ==
    /\ (attempt.cls \in {"PipeCommand", "SequentialCommand"}
          /\ NotCommands(attempt.commands)) => FailedWithValueError
    /\ (attempt.cls = "ParallelCommand" /\ attempt.commands = Null)
          => FailedWithValueError
    /\ \A c \in Objects : (IsPipe(c) \/ IsSequential(c)) => commands[c] # <<>>
    /\ (attempt.cls = "ParallelCommand" /\ attempt.commands = Some(<<>>)) =>
          /\ ctor_error = Null
          /\ IsParallel(Root) /\ commands[Root] = <<>>
          /\ (Done /\ returned # Null /\ returned[1].error = NoError) =>
                /\ returned[1].succeeded
                /\ Repr(returned[1].output) =
                      (IF collect_outputs[Root] THEN "[]" ELSE "None")

\* SequentialCommand([]) has raised ValueError.
C12_Witness ==
    /\ attempt.cls = "SequentialCommand"
    /\ attempt.commands = Some(<<>>)
    /\ attempt.operator = AND
    /\ ctor_error = Some(ValueError("Commands list cannot be None or empty"))
    /\ Objects = {}

\* ParallelCommand([], collect_outputs=True).run() has returned [].
C12_EmptyParallelWitness ==
    /\ Done /\ IsParallel(Root) /\ commands[Root] = <<>>
    /\ returned # Null /\ returned[1].succeeded
    /\ Repr(returned[1].output) = "[]"

\* C13: constructing a SequentialCommand with an operator other than '&&',
\* '||' and None raises ValueError at construction: no sequence with such
\* an operator exists, and no child has been executed.
C13_InvalidOperatorRejected ==
    /\ (attempt.cls = "SequentialCommand" /\ attempt.operator \notin {AND, OR, ALWAYS}) =>
          /\ FailedWithValueError
          /\ ~NotCommands(attempt.commands) =>
                ctor_error = Some(ValueError("Invalid operator"))
          /\ stack = <<>> /\ log = <<>> /\ returned = Null
    /\ \A c \in Objects : IsSequential(c) => operator[c] \in {AND, OR, ALWAYS}

\* SequentialCommand([l1, l2], operator=";") has raised ValueError.
C13_Witness ==
    /\ attempt.cls = "SequentialCommand"
    /\ attempt.commands = Some(<<2, 3>>)
    /\ attempt.operator = Str(";")
    /\ ctor_error = Some(ValueError("Invalid operator"))
    /\ Objects = {}

----------------------------------------------------------------------------
(* Claims about ParallelCommand *)

\* The synchronous run of the ParallelCommand p has returned in the current
\* call of the root.
ParallelRan(p) ==
    /\ Done /\ IsParallel(p)
    /\ result[p] # Null /\ result[p][1].error = NoError
    /\ result[p][1] \in ReturnedBy(p)

\* The indices of the children of p in the order in which they completed.
CompletionOrder(p) == [j \in DOMAIN Ran(p) |-> Ran(p)[j].index]

\* C14: a run of a ParallelCommand over N children yields one CommandResult
\* per child, and the i-th collected result and output are the ones the i-th
\* child of the list produced, in whatever order the children completed and
\* whatever the pool size.
C14_ParallelOrderPreserved ==
    \A p \in Objects :
       ParallelRan(p) =>
          LET N == Len(commands[p])
          IN /\ Len(Ran(p)) = N
             /\ {Ran(p)[j].index : j \in DOMAIN Ran(p)} = 1..N
             /\ \A j \in DOMAIN Ran(p) :
                   LET e == Ran(p)[j]
                   IN /\ e.cmd = commands[p][e.index]
                      /\ e.result = ExecuteCommand(e.cmd).value
                      /\ result[commands[p][e.index]] = Some(e.result)
                      /\ collect_outputs[p] =>
                            /\ Len(heap[result[p][1].output.ref]) = N
                            /\ heap[result[p][1].output.ref][e.index] = e.result.output

\* Three children on a pool of two workers, the second completing first and
\* the first last; the collected outputs are in list order.
C14_Witness ==
    /\ ParallelRan(Root)
    /\ pool_size[Root] = CpuCount
    /\ CompletionOrder(Root) = <<2, 3, 1>>
    /\ Repr(returned[1].output) = "['A', 'B', 'C']"

\* C15: after a run of a ParallelCommand has returned, the result attribute
\* of each of the caller's child objects is the CommandResult the worker
\* returned for that child; until then the caller's objects show nothing of
\* what the workers did to their copies.
C15_ParallelReconciled ==
    \A p \in Objects :
       /\ ParallelRan(p) =>
             \A j \in DOMAIN Ran(p) :
                result[commands[p][Ran(p)[j].index]] = Some(Ran(p)[j].result)
       /\ (stack # <<>> /\ Top.self = p /\ IsParallel(p) /\ Top.pc = "join") =>
             \A i \in DOMAIN pool :
                pool[i].state = "done" =>
                   \/ result[commands[p][i]] = Null
                   \/ runs > 1

\* A first run over a leaf that succeeds, one that fails and one that raises
\* has returned, and each child object holds its worker's result.
C15_Witness ==
    /\ ParallelRan(Root) /\ runs = 1
    /\ Len(commands[Root]) = 3
    /\ result[2] # Null /\ Repr(result[2][1].output) = "'A'"
    /\ result[3] # Null /\ ~result[3][1].succeeded /\ result[3][1].error = NoError
    /\ result[4] # Null /\ result[4][1].error = SystemError(ErrorMessage)

\* In a first run a worker has finished a child and the caller's child object
\* still has no result.
C15_NotYetVisibleWitness ==
    /\ stack # <<>> /\ IsParallel(Top.self) /\ Top.pc = "join" /\ runs = 1
    /\ \E i \in DOMAIN pool :
          pool[i].state = "done" /\ result[commands[Top.self][i]] = Null

\* The children of p that did not succeed in the current run.
FailedChildren(p) == {j \in DOMAIN Ran(p) : ~Ran(p)[j].result.succeeded}

\* C16: the CommandResult a synchronous run of a ParallelCommand returns has
\* succeeded = True whatever its children did (succeeded, failed or raised),
\* and the run raises nothing.
C16_ParallelAlwaysSucceeds ==
    [][(/\ stack # <<>>
        /\ IsParallel(Top.self)
        /\ Top.mode = "sync"
        /\ Len(stack') < Len(stack))
       => (/\ escaped' = Null
           /\ result'[Top.self] # Null
           /\ result'[Top.self][1].succeeded
           /\ result'[Top.self][1].error = NoError
           /\ Len(stack) = 1 => returned' = result'[Top.self])]_vars

\* Every child of the ParallelCommand failed or raised, and its run
\* returned succeeded = True.
C16_Witness ==
    /\ ParallelRan(Root)
    /\ Len(commands[Root]) = 3
    /\ Cardinality(FailedChildren(Root)) = 3
    /\ \E j \in DOMAIN Ran(Root) : Ran(Root)[j].result.error = SystemError(ErrorMessage)
    /\ returned[1].succeeded

\* What the children of p produce, in list order, as log entries.
InListOrderResults(p) ==
    [i \in DOMAIN commands[p] |-> [result |-> ExecuteCommand(commands[p][i]).value]]

\* C17: the output of a ParallelCommand run is the list of every child's
\* output in list order, one entry per child and None for a child that
\* failed, when collect_outputs is true; it is None when collect_outputs is
\* false.
C17_ParallelOutput ==
    \A p \in Objects :
       ParallelRan(p) =>
          LET out == result[p][1].output
          IN IF collect_outputs[p]
             THEN /\ out.t = "list"
                  /\ Len(heap[out.ref]) = Len(commands[p])
                  /\ Repr(out) = "[" \o ReprOutputs(InListOrderResults(p)) \o "]"
                  /\ \A j \in DOMAIN Ran(p) :
                        ~Ran(p)[j].result.succeeded => heap[out.ref][Ran(p)[j].index] = None
             ELSE out = None

\* ParallelCommand([AddChar A, Error, raising Error], collect_outputs=True)
\* has returned ['A', None, None].
C17_Witness ==
    /\ ParallelRan(Root)
    /\ attempt.collect = Some(TRUE)
    /\ Cardinality(FailedChildren(Root)) = 2
    /\ Repr(returned[1].output) = "['A', None, None]"

\* ParallelCommand([AddChar A, AddChar B], collect_outputs=False) has
\* returned None.
C17_DisabledWitness ==
    /\ ParallelRan(Root)
    /\ attempt.collect = Some(FALSE)
    /\ Len(Ran(Root)) = 2 /\ FailedChildren(Root) = {}
    /\ returned[1].output = None

\* C18: a ParallelCommand constructed from its child list alone, without a
\* collect_outputs argument, collects: its run returns the list of the
\* children's outputs in list order.
C18_DefaultCollects ==
    (ParallelRan(Root) /\ attempt.cls = "ParallelCommand" /\ attempt.collect = Null) =>
       Repr(returned[1].output) = "[" \o ReprOutputs(InListOrderResults(Root)) \o "]"

\* What such a ParallelCommand returns: no output at all.
C18_DefaultOutputIsNone ==
    (ParallelRan(Root) /\ attempt.cls = "ParallelCommand" /\ attempt.collect = Null) =>
       returned[1].output = None

\* ParallelCommand([AddChar A, AddChar B, AddChar C]).run() has returned.
C18_DefaultWitness ==
    /\ ParallelRan(Root) /\ attempt.cls = "ParallelCommand" /\ attempt.collect = Null
    /\ Len(Ran(Root)) = 3 /\ FailedChildren(Root) = {}
    /\ returned[1].output = None

NotSupported == TypeError("ParallelCommand does not support async run")

\* The entries of the log l that are invocations of p's children.
ChildrenIn(l, p) == SelectSeq(l, LAMBDA e : e.parent = p)

\* A call of async_run of a ParallelCommand is in progress.
ParallelAsync == stack # <<>> /\ IsParallel(Top.self) /\ Top.mode = "async"

\* C19 as stated: async_run of a ParallelCommand raises TypeError to its
\* caller instead of returning a CommandResult, and executes no child.
C19_AsyncRaisesToCaller ==
    [][(ParallelAsync /\ Len(stack) = 1) =>
          (/\ stack' = <<>>
           /\ escaped' = Some(NotSupported)
           /\ returned' = Null
           /\ log' = log /\ pool' = pool)]_vars

\* C19, amended: async_run of a ParallelCommand raises nothing; it returns
\* (and stores as the command's result) the CommandResult with output None,
\* succeeded False, error the TypeError and error_message its text, and it
\* executes no child: no task is given to a pool and no child's result
\* changes.
C19_AsyncReturnsTypeErrorResult ==
    [][ParallelAsync =>
          (/\ Len(stack') = Len(stack) - 1
           /\ escaped' = Null
           /\ result'[Top.self] =
                 Some(CommandResult(None, FALSE, NotSupported,
                                    Str("ParallelCommand does not support async run"),
                                    None))
           /\ Len(stack) = 1 => returned' = result'[Top.self]
           /\ pool' = <<>>
           /\ ChildrenIn(log', Top.self) = ChildrenIn(log, Top.self)
           /\ \A i \in DOMAIN commands[Top.self] :
                 result'[commands[Top.self][i]] = result[commands[Top.self][i]])]_vars

\* await ParallelCommand([l1, l2]).async_run() has returned the TypeError
\* result on a fresh instance, and no child has a result.
C19_Witness ==
    /\ Done /\ runs = 1 /\ IsParallel(Root)
    /\ Len(commands[Root]) = 2
    /\ escaped = Null
    /\ returned # Null /\ returned[1].error = NotSupported /\ ~returned[1].succeeded
    /\ result[Root] = returned
    /\ log = <<>>
    /\ result[2] = Null /\ result[3] = Null

----------------------------------------------------------------------------
(* Claims about nested composites *)

\* The leaves that raise and have been run in the current call of the root.
RaisedLeaves ==
    {log[j].cmd : j \in {k \in DOMAIN log :
                            IsLeaf(log[k].cmd) /\ Leaf_run(log[k].cmd).raised}}

\* C20: a call of run on a tree of nested PipeCommand, SequentialCommand and
\* ParallelCommand over leaves that may fail or raise raises nothing to the
\* top-level caller, at any moment and from any depth, and when it has ended
\* the caller has a CommandResult, which is also the root's result.
C20_NestedNeverRaises ==
    /\ escaped = Null
    /\ Done => (returned # Null /\ result[Root] = returned)
    /\ \A c \in RaisedLeaves :
          \A r \in ReturnedBy(c) : ~r.succeeded /\ r.error = Leaf_run(c).error

\* SequentialCommand([PipeCommand([raising, l2]), ParallelCommand([raising,
\* l4])], operator=None).run() has returned a result; both raising leaves
\* were executed.
C20_Witness ==
    /\ Done /\ IsSequential(Root) /\ commands[Root] = <<2, 3>>
    /\ IsPipe(2) /\ ParallelRan(3)
    /\ {4, 6} \subseteq RaisedLeaves
    /\ returned # Null /\ returned[1].succeeded

----------------------------------------------------------------------------
(* Claims about the error message of a failed result *)

\* C21: every CommandResult with succeeded = False returned by run or
\* async_run of a leaf that raised, of a PipeCommand or of a
\* SequentialCommand has an error_message that is not None.
C21_FailedHasMessage ==
    \A c \in Objects :
        (IsPipe(c) \/ IsSequential(c) \/ c \in RaisedLeaves) =>
            \A r \in ReturnedBy(c) : ~r.succeeded => r.error_message # None

\* The part of C21 that holds: the failed result of a leaf that raised
\* carries the text of the exception.
C21_RaisedLeafHasMessage ==
    \A c \in RaisedLeaves :
        \A r \in ReturnedBy(c) :
            ~r.succeeded /\ r.error_message = PyStr(Leaf_run(c).error)

\* SequentialCommand([failing leaf]).run() has returned a failed result
\* without a message.
C21_NoMessageWitness ==
    /\ Done /\ IsSequential(Root) /\ returned # Null
    /\ ~returned[1].succeeded /\ returned[1].error_message = None

----------------------------------------------------------------------------
(* Claims about the result attribute *)

\* The commands a call of run or async_run has returned from in the
\* current call of the root.
Called == {log[j].cmd : j \in DOMAIN log} \cup
              (IF returned # Null THEN {Root} ELSE {})

\* Until its first call has returned, a command's result is None.
ResultNoneBeforeFirstCall ==
    runs <= 1 => \A c \in Objects : c \notin Called => result[c] = Null

\* A step in which the run or async_run of the top frame's command returns:
\* the result the caller receives (the top-level caller in returned, a
\* calling composite in its frame and in the log) is the one stored in the
\* command's result attribute.
ResultIsReturned ==
    (stack # <<>> /\ Len(stack') < Len(stack)) =>
        LET self == Top.self
        IN /\ result'[self] # Null
           /\ IF stack' = <<>>
              THEN returned' = result'[self]
              ELSE /\ stack'[Len(stack')].result = result'[self]
                   /\ Len(log') = Len(log) + 1
                   /\ log'[Len(log')].cmd = self
                   /\ log'[Len(log')].result = result'[self][1]

\* C23: after every call of run or async_run on a command, leaf or
\* composite, the command's result attribute is the CommandResult the call
\* returned, also when the execution raised; before the first call the
\* result attribute is None.
C23_ResultAttribute ==
    []ResultNoneBeforeFirstCall /\ [][ResultIsReturned]_vars

\* A raising leaf inside a composite has returned, its result attribute
\* holding the failed result its caller received, while a sibling that was
\* not called yet still has no result.
C23_Witness ==
    /\ runs = 1 /\ stack # <<>>
    /\ \E c \in RaisedLeaves :
          /\ result[c] # Null /\ ~result[c][1].succeeded
          /\ result[c][1] \in ReturnedBy(c)
    /\ \E c \in Objects : IsLeaf(c) /\ c \notin Called /\ result[c] = Null

----------------------------------------------------------------------------
(* Claims about a pipe of one child *)

\* The root is a PipeCommand of one child whose call has returned.
SingleChildPipeDone ==
    Done /\ IsPipe(Root) /\ Len(commands[Root]) = 1 /\ returned # Null

\* C24: a PipeCommand of one child behaves as the child run directly with
\* the pipe's initial input: the child is executed once, with that input,
\* and the pipe returns a result with the child's output, succeeded, error,
\* error_message and metadata.
C24_SingleChildPipe ==
    SingleChildPipeDone =>
        /\ Len(log) = 1
        /\ log[1].cmd = commands[Root][1]
        /\ log[1].input = input_data[Root]
        /\ returned[1] = log[1].result

\* The part of C24 that holds: on the first run of the pipe.
C24_FirstRun == runs = 1 => C24_SingleChildPipe

\* The second run of PipeCommand([AddCharCommand]) with "D" has returned:
\* the child was executed with the output of the first run, not with "D".
C24_RerunWitness ==
    /\ SingleChildPipeDone /\ runs = 2
    /\ input_data[Root] = Str("D")
    /\ Len(log) = 1 /\ log[1].input # Str("D")
    /\ returned[1].succeeded

----------------------------------------------------------------------------
(* Claims about the pool of a ParallelCommand *)

\* A ParallelCommand is in run(), and not every child has completed.
ParallelIncomplete ==
    /\ stack # <<>> /\ IsParallel(Top.self) /\ Top.mode = "sync"
    /\ ~(Top.pc = "join" /\ AllDone)

\* C25: during a run of a ParallelCommand nothing partial can be observed:
\* until every child has completed, no step changes the result attribute of
\* a child or of the ParallelCommand on the caller's objects, and run does
\* not return.
C25_NoPartialResult ==
    [][ParallelIncomplete =>
          /\ \A i \in DOMAIN commands[Top.self] :
                result'[commands[Top.self][i]] = result[commands[Top.self][i]]
          /\ result'[Top.self] = result[Top.self]
          /\ returned' = returned
          /\ Len(stack') = Len(stack)]_vars

\* ParallelCommand([l1, l2, l3], number_of_processes=1).run() is in
\* pool.map: the first child has completed, the second is executing, the
\* third waits; no child of the caller has a result and nothing is returned.
C25_Witness ==
    /\ runs = 1 /\ ParallelIncomplete /\ Top.self = Root
    /\ Len(pool) = 3
    /\ pool[1].state = "done" /\ pool[2].state = "running" /\ pool[3].state = "queued"
    /\ Len(log) = 1
    /\ \A i \in 1..3 : result[commands[Root][i]] = Null
    /\ result[Root] = Null /\ returned = Null

\* A ParallelCommand is in run().
ParallelActive == stack # <<>> /\ IsParallel(Top.self) /\ Top.mode = "sync"

\* At no moment of a run of a ParallelCommand do more children execute than
\* the pool has workers (number_of_processes, or the CPU count when it is
\* not given); while a child has not completed a worker can take a step;
\* and a run that has returned has executed every child once.
PoolBounded ==
    /\ ParallelActive =>
          /\ Cardinality(Running) <= pool_size[Top.self]
          /\ (Top.pc = "join" /\ ~AllDone) => ENABLED PoolWorker
    /\ Root \in Objects /\ IsParallel(Root) =>
          pool_size[Root] = IF attempt.processes = Null THEN CpuCount
                            ELSE attempt.processes[1]
    /\ \A p \in Objects :
          ParallelRan(p) =>
              \A i \in DOMAIN commands[p] :
                  Cardinality({j \in DOMAIN Ran(p) : Ran(p)[j].index = i}) = 1

\* Every task handed to the pool is eventually done.
EveryChildExecuted ==
    \A i \in 1..MaxTasks :
        (ParallelActive /\ Top.pc = "join" /\ i \in DOMAIN pool)
            ~> (ParallelActive /\ i \in DOMAIN pool /\ pool[i].state = "done")

\* C26: during a run of a ParallelCommand the number of children executing
\* at the same time never exceeds the pool size, which is
\* number_of_processes, or the CPU count when it is not given, and every
\* child is still eventually executed when there are more children than
\* workers.
C26_PoolBounded == []PoolBounded /\ EveryChildExecuted

\* Three children on a pool of two workers: two are executing and the third
\* waits for a free worker.
C26_Witness ==
    /\ ParallelActive /\ Top.self = Root /\ pool_size[Root] = 2
    /\ Len(pool) = 3 /\ Cardinality(Running) = 2
    /\ pool[3].state = "queued"

\* Three children on a pool of one worker: the run has returned and every
\* child was executed.
C26_OneWorkerWitness ==
    /\ ParallelRan(Root) /\ pool_size[Root] = 1
    /\ Len(commands[Root]) = 3 /\ Len(Ran(Root)) = 3

----------------------------------------------------------------------------
(* Claims about the input a pipe's child executes with *)

\* C29: in a run of a PipeCommand the first child executes with the pipe's
\* initial input, and every later executed child executes with an input
\* equal to the output of the child before it, whatever that output is, the
\* None output of a child that succeeded included.
C29_PipeInputs ==
    \A p \in Objects :
        IsPipe(p) =>
            \A j \in DOMAIN Ran(p) :
                Ran(p)[j].input = IF j = 1 THEN input_data[p]
                                  ELSE Ran(p)[j - 1].result.output

\* The part of C29 that holds: on the first run, a value that is not None
\* is the input the next child executes with.
C29_FreshPipeInputs ==
    \A p \in Objects :
        (IsPipe(p) /\ runs = 1) =>
            \A j \in DOMAIN Ran(p) :
                LET given == IF j = 1 THEN input_data[p]
                             ELSE Ran(p)[j - 1].result.output
                IN given # None => Ran(p)[j].input = given

\* PipeCommand([ParallelCommand([l3, l4]), PipeCommand([l1, l2], "X")]).run():
\* the ParallelCommand succeeded with output None, and the inner pipe then
\* executed with the "X" it was built with.
C29_NoneOutputWitness ==
    /\ runs = 1 /\ IsPipe(Root) /\ commands[Root] = <<3, 2>>
    /\ Len(Ran(Root)) = 2
    /\ Ran(Root)[1].result.succeeded /\ Ran(Root)[1].result.output = None
    /\ Ran(Root)[2].cmd = 2 /\ Ran(Root)[2].input = Str("X")

\* The second run of a pipe with "D": its first child executed with the
\* output of the first run.
C29_RerunWitness ==
    /\ runs = 2 /\ Done /\ IsPipe(Root) /\ input_data[Root] = Str("D")
    /\ Ran(Root) # <<>> /\ Ran(Root)[1].input \notin {Str("D"), None}

----------------------------------------------------------------------------
(* Claims about the stored input *)

\* The values a step can pass as the argument of run or async_run.
ArgValues ==
    RunInputs \cup
        (IF stack # <<>> /\ IsPipe(Top.self)
         THEN {PipeCommand_last_output(Top.self)} ELSE {})

\* The step is a call c.run(a) or await c.async_run(a): by the top-level
\* caller, by a PipeCommand (which passes its last output) or by a
\* SequentialCommand (which passes nothing).
Calls(c, a) ==
    IF stack = <<>>
    THEN c = Root /\ \E mode \in Modes : CallerRun(a, mode)
    ELSE /\ Len(stack') = Len(stack) + 1
         /\ stack'[Len(stack')].self = c
         /\ a = IF IsPipe(Top.self) THEN PipeCommand_last_output(Top.self) ELSE None

\* C30: a Command stores its input: a call of run or async_run with an
\* argument that is not None executes with input_data equal to the
\* argument, a call with None leaves the stored input_data as it was and
\* executes with it; nothing but a call of the command changes its
\* input_data.
C30_StoredInput ==
    [][\A c \in Objects :
          /\ \A a \in ArgValues :
                Calls(c, a) =>
                    input_data'[c] = IF a # None THEN a ELSE input_data[c]
          /\ (\A a \in ArgValues : ~Calls(c, a)) =>
                input_data'[c] = input_data[c]]_vars

\* AddCharCommand('A') was run with "D" and then run again: the call
\* without an argument executed with the stored "D" and returned "DA".
C30_Witness ==
    /\ Done /\ runs = 2 /\ cls[Root] = "AddCharCommand"
    /\ input_data[Root] = Str("D")
    /\ returned # Null /\ returned[1].output = Str("DA")

----------------------------------------------------------------------------
(* Claims about ProcessCommand *)

\* C27: a ProcessCommand can be built and run, and its run never raises to
\* the caller: whatever the process does (success, time-out, executable not
\* found) the caller obtains a CommandResult.
C27_ProcessCommandRuns ==
    attempt.cls = "ProcessCommand" =>
        /\ ctor_error = Null
        /\ Root \in Objects
        /\ Done => (escaped = Null /\ returned # Null)

\* What holds instead: the constructor call raises TypeError, no
\* ProcessCommand exists and none is ever run.
C27_NeverConstructed ==
    attempt.cls = "ProcessCommand" =>
        /\ ctor_error # Null /\ ctor_error[1].cls = "TypeError"
        /\ Objects = {} /\ runs = 0 /\ returned = Null

\* ProcessCommand(["echo", "Hello"]) has raised TypeError.
C27_TypeErrorWitness ==
    /\ attempt.cls = "ProcessCommand"
    /\ ctor_error # Null /\ ctor_error[1].cls = "TypeError"

----------------------------------------------------------------------------
(* Claims about get_files *)

\* The include patterns in force: match-all when names is None.
Included(path) ==
    IF names = Null THEN TRUE
    ELSE \E i \in DOMAIN names[1] : re_search(names[1][i], path.name)

Excluded(path) ==
    exclude_names # Null /\
        \E i \in DOMAIN exclude_names[1] : re_search(exclude_names[1][i], path.name)

\* C28: get_files returns exactly the regular files under the directory, at
\* every depth when recursive and the direct entries otherwise, whose name
\* matches at least one include pattern (every name when names is None) and
\* no exclude pattern; a directory is never returned and a directory that
\* does not exist gives the empty list.
C28_GetFiles ==
    files # Null =>
        /\ {files[1][i] : i \in DOMAIN files[1]} =
              {e \in directory.entries :
                  /\ e.kind = "file"
                  /\ recursive \/ e.dir = ""
                  /\ Included(e)
                  /\ ~Excluded(e)}
        /\ \A i, j \in DOMAIN files[1] : files[1][i] = files[1][j] => i = j
        /\ \A i \in DOMAIN files[1] : files[1][i].kind # "dir"
        /\ ~directory.exists => files[1] = <<>>

\* get_files(directory, names=[".*\\.ya?ml$", ".*\\.txt"],
\* exclude_names=[".*dev.*"], recursive=True) on the full directory returned
\* file1.yml, file3.txt, file3.txt.bak and sub/file1.txt: not the yaml file
\* with dev in its name, and not the directory dir.txt.
C28_Witness ==
    /\ files # Null
    /\ directory.entries = Entries
    /\ recursive
    /\ names = Some(<<".*\\.ya?ml$", ".*\\.txt">>)
    /\ exclude_names = Some(<<".*dev.*">>)
    /\ Len(files[1]) = 4

\* The same directory listed without recursion and without patterns: the
\* four files of the directory itself.
C28_DirectWitness ==
    /\ files # Null
    /\ directory.entries = Entries
    /\ ~recursive /\ names = Null /\ exclude_names = Some(<<>>)
    /\ Len(files[1]) = 4

----------------------------------------------------------------------------
(* Claims about run and async_run *)

C22_NestedWitness ==
    /\ twin # Null /\ twin[1].phase = "await" /\ Done
    /\ IsSequential(Root) /\ IsSequential(commands[Root][1])
    /\ Len(log) = 6 /\ returned # Null /\ returned[1].succeeded

----------------------------------------------------------------------------
(* Claims about the input of a ParallelCommand's children *)

\* Every child of a ParallelCommand that was executed in the current call
\* of the root was executed with its own stored input_data, and returned
\* what its run returns for that input.
ParallelChildrenOwnInput ==
    \A j \in DOMAIN log :
        IsParallel(log[j].parent) =>
            /\ log[j].input = input_data[log[j].cmd]
            /\ log[j].result = Command_run(Leaf_run(log[j].cmd)).value

\* No step taken while a ParallelCommand is in run() changes the stored
\* input_data of a child.
ParallelChildrenInputKept ==
    ParallelActive =>
        \A i \in DOMAIN commands[Top.self] :
            input_data'[commands[Top.self][i]] = input_data[commands[Top.self][i]]

\* C31: a ParallelCommand passes no input to its children: each child is
\* executed with no argument, so that the input given to the
\* ParallelCommand's run is read by no child and every child's stored
\* input_data is unchanged by the run.
C31_ParallelPassesNoInput ==
    []ParallelChildrenOwnInput /\ [][ParallelChildrenInputKept]_vars

\* ParallelCommand([AddCharCommand('A'), AddCharCommand('B')],
\* collect_outputs=True).run("D") has returned ['A', 'B']: no child read
\* the "D", and no child stores it.
C31_Witness ==
    /\ ParallelRan(Root) /\ runs = 1
    /\ input_data[Root] = Str("D")
    /\ Len(commands[Root]) = 2 /\ collect_outputs[Root]
    /\ Repr(returned[1].output) = "['A', 'B']"
    /\ \A i \in 1..2 : input_data[commands[Root][i]] = None

----------------------------------------------------------------------------
(* Claims about the order of execution in a pipe or a sequence *)

\* A PipeCommand or SequentialCommand whose run or async_run is in
\* progress has had its children 1 .. n return, in that order, and has at
\* most one more child in progress, child n + 1: the frame directly above
\* its own.
OneChildAtATime ==
    \A k \in DOMAIN stack :
        LET p == stack[k].self
            n == Len(Ran(p))
        IN (IsPipe(p) \/ IsSequential(p)) =>
              /\ \A j \in 1..n : Ran(p)[j].index = j /\ Ran(p)[j].cmd = commands[p][j]
              /\ IF k < Len(stack)
                 THEN /\ stack[k].pc = "call" /\ stack[k].i = n + 1
                      /\ stack[k + 1].self = commands[p][n + 1]
                      /\ stack[k + 1].mode = stack[k].mode
                 ELSE /\ pool = <<>>
                      /\ stack[k].i = IF stack[k].pc = "call" THEN n + 1 ELSE n

\* Control passes between commands only where a child is called or
\* returns: a step of a pipe or a sequence hands control to the child it
\* calls, keeps it, or returns; a leaf runs to its return in one step, in
\* run and in async_run.
ControlAtInvocationBoundary ==
    (stack # <<>> /\ ~IsParallel(Top.self)) =>
        /\ IsLeaf(Top.self) => Len(stack') = Len(stack) - 1
        /\ Len(stack') > Len(stack) =>
              /\ Len(stack') = Len(stack) + 1
              /\ Top.pc = "call"
              /\ stack'[Len(stack')].self = commands[Top.self][Top.i]
              /\ SubSeq(stack', 1, Len(stack)) = stack
        /\ Len(stack') < Len(stack) => Len(stack') = Len(stack) - 1

\* C32: in a run of a PipeCommand or SequentialCommand, synchronous or
\* awaited, the children are executed strictly one at a time in list order:
\* child i + 1 is not started before the invocation of child i has
\* returned its CommandResult, and in async_run control is handed over only
\* where a child is invoked or returns.
C32_OneAtATime == []OneChildAtATime /\ [][ControlAtInvocationBoundary]_vars

\* An awaited SequentialCommand of four children has its third child in
\* progress: the first two have returned and the fourth has not started.
C32_Witness ==
    /\ Len(stack) = 2 /\ stack[1].self = Root /\ stack[1].mode = "async"
    /\ IsSequential(Root) /\ Len(commands[Root]) = 4
    /\ stack[2].self = commands[Root][3]
    /\ Len(Ran(Root)) = 2
    /\ result[commands[Root][4]] = Null /\ runs = 1

----------------------------------------------------------------------------
(* Claims about running the same instance again *)

\* What a fresh PipeCommand returns for the results its children returned
\* in this run: the failed result itself, or a result with the last output.
FreshPipeResult(rs) ==
    LET last == rs[Len(rs)]
    IN IF ~last.succeeded THEN last
       ELSE CommandResult(last.output, TRUE, NoError, None, None)

\* The root is a PipeCommand whose call has returned, with an input that is
\* not None.
PipeDone ==
    Done /\ IsPipe(Root) /\ returned # Null /\ input_data[Root] # None

\* C33: a PipeCommand instance that is run again behaves as on a fresh run:
\* on every run the first child is executed with the pipe's own input, not
\* with the final output of an earlier run, and the returned result depends
\* on the results of this run's children only, also after a failed run.
C33_PipeRerun ==
    PipeDone =>
        /\ Ran(Root)[1].input = input_data[Root]
        /\ returned[1] = FreshPipeResult([j \in DOMAIN Ran(Root) |-> Ran(Root)[j].result])

\* The part of C33 that holds: the first run of an instance.
C33_FirstRun == runs = 1 => C33_PipeRerun

\* p = PipeCommand([AddCharCommand('A')]); p.run('D'); p.run('D'): the second
\* run has returned 'DAA', its child having been executed with 'DA'.
C33_RerunWitness ==
    /\ PipeDone /\ runs = 2 /\ Len(commands[Root]) = 1
    /\ input_data[Root] = Str("D")
    /\ Ran(Root)[1].input = Str("DA")
    /\ returned[1].output = Str("DAA")

\* The root is a collecting SequentialCommand whose call has returned.
CollectingDone ==
    Done /\ IsSequential(Root) /\ collect_outputs[Root] /\ returned # Null

\* The output list of the result the root returned.
ReturnedOutputs == heap[returned[1].output.ref]

\* C34: when the same collecting SequentialCommand instance is run more than
\* once, the output of each run holds the outputs of the children executed
\* in that run and nothing else: its length is the number of children
\* executed in that run and never exceeds the number of children.
C34_SequentialRerun ==
    CollectingDone =>
        /\ Len(ReturnedOutputs) = Len(Ran(Root))
        /\ Len(ReturnedOutputs) <= Len(commands[Root])
        /\ \A j \in DOMAIN Ran(Root) : ReturnedOutputs[j] = Ran(Root)[j].result.output

\* The part of C34 that holds: the first run of an instance.
C34_FirstRun == runs = 1 => C34_SequentialRerun

\* s = SequentialCommand([l1, l2, l3], operator=None, collect_outputs=True);
\* s.run(); s.run(): the second run executed three children and returned
\* an output of six elements.
C34_RerunWitness ==
    /\ CollectingDone /\ runs = 2 /\ operator[Root] = ALWAYS
    /\ Len(commands[Root]) = 3 /\ Len(Ran(Root)) = 3
    /\ Len(ReturnedOutputs) = 6

----------------------------------------------------------------------------
(* Claims about a ParallelCommand and a SequentialCommand over the same
   children *)

\* The root has run a SequentialCommand (object 2, operator None) and a
\* ParallelCommand (object 3), both collecting, over children built alike.
PairDone ==
    /\ Done /\ Len(commands[Root]) = 2
    /\ IsSequential(2) /\ operator[2] = ALWAYS /\ collect_outputs[2]
    /\ IsParallel(3) /\ collect_outputs[3]
    /\ Len(commands[2]) = Len(commands[3])
    /\ result[2] # Null /\ result[3] # Null

\* C35: for children whose outcome depends neither on input nor on each
\* other, a collecting ParallelCommand returns the same output sequence, and
\* leaves the same result on each child, as a collecting SequentialCommand
\* with operator None over the same children, whatever the order in which
\* the parallel children complete.
C35_ParallelAsSequential ==
    PairDone =>
        /\ Repr(result[3][1].output) = Repr(result[2][1].output)
        /\ \A i \in DOMAIN commands[2] :
              result[commands[3][i]] = result[commands[2][i]]

\* The part of C35 that holds: the first run of both instances.
C35_FirstRun == runs = 1 => C35_ParallelAsSequential

\* Three children each way, the first of them failing, the parallel ones
\* completing in the order 2, 1, 3 on two workers: both outputs are
\* [None, 'B', 'C'].
C35_FirstRunWitness ==
    /\ PairDone /\ runs = 1 /\ Len(commands[3]) = 3 /\ pool_size[3] = 2
    /\ CompletionOrder(3) = <<2, 1, 3>>
    /\ Repr(result[3][1].output) = "[None, 'B', 'C']"
    /\ Repr(result[2][1].output) = "[None, 'B', 'C']"

\* The second run of the same two instances: the SequentialCommand returned
\* six outputs, the ParallelCommand three.
C35_RerunWitness ==
    /\ PairDone /\ runs = 2 /\ Len(commands[3]) = 3
    /\ Len(heap[result[2][1].output.ref]) = 6
    /\ Len(heap[result[3][1].output.ref]) = 3

----------------------------------------------------------------------------
(* Termination *)

\* How many invocations of the i-th child of p returned in the current call
\* of the root.
Executions(p, i) == Cardinality({j \in DOMAIN Ran(p) : Ran(p)[j].index = i})

\* The composite p returned from a call made in the current call of the
\* root; for a ParallelCommand, from run().
CompositeReturned(p) ==
    /\ cls[p] \in {"PipeCommand", "SequentialCommand", "ParallelCommand"}
    /\ \E r \in ReturnedBy(p) : IsParallel(p) => r.error = NoError

\* No child is executed twice in a call, and a SequentialCommand with
\* operator None or a ParallelCommand that returned executed each child once.
EachChildAtMostOnce ==
    \A p \in Objects :
        \A i \in DOMAIN commands[p] :
            /\ Executions(p, i) <= 1
            /\ (/\ CompositeReturned(p)
                /\ IsParallel(p) \/ (IsSequential(p) /\ operator[p] = ALWAYS))
                  => Executions(p, i) = 1

\* A call of the root is in progress.
Calling == stack # <<>>

C36_NestedWitness ==
    /\ Done /\ returned # Null
    /\ IsSequential(Root) /\ operator[Root] = ALWAYS
    /\ \E p, q \in Objects :
          /\ commands[Root] = <<q, p>>
          /\ IsParallel(q) /\ IsPipe(p)
          /\ CompositeReturned(q) /\ CompositeReturned(p)
          /\ \A i \in 1..2 : Executions(q, i) = 1
          /\ Executions(p, 1) = 1 /\ Executions(p, 2) = 0
          /\ \E j \in DOMAIN Ran(q) : ~Ran(q)[j].result.succeeded

====
